---------------------------- MODULE Spec2Model ----------------------------
(***************************************************************************)
(* Model of the Pakfolio FIFO capital-gains ledger (class FIFOQueue) and   *)
(* of the what-if flow that reads it.                                      *)
(*                                                                         *)
(* Numbers.  JavaScript numbers that carry money or a percentage are       *)
(* modelled as exact rationals <<n, d>> in lowest terms with d > 0; the    *)
(* rounding of IEEE doubles is not modelled.  Share quantities are         *)
(* integers.  Dates are whole day numbers; day 0 is a Sunday, so that      *)
(* d % 7 is what Date.getDay() returns.                                    *)
(***************************************************************************)
EXTENDS Integers, Sequences, FiniteSets, TLC

(***************************************************************************)
(* Bounds of the exploration                                               *)
(***************************************************************************)
MaxCalls == 3

MaxQty == 2

MaxLines == 2

(***************************************************************************)
(* Exact rational arithmetic                                               *)
(***************************************************************************)
Abs(n) == IF n < 0 THEN 0 - n ELSE n

RECURSIVE GCD(_, _)
GCD(a, b) == IF b = 0 THEN a ELSE GCD(b, a % b)

Norm(n, d) == LET g == GCD(Abs(n), d) IN <<n \div g, d \div g>>

R(n) == <<n, 1>>

RMul(x, y) ==
    LET a == Norm(x[1], y[2])
        b == Norm(y[1], x[2])
    IN  Norm(a[1] * b[1], a[2] * b[2])

RAdd(x, y) ==
    LET g == GCD(x[2], y[2])
        l == (x[2] \div g) * y[2]
    IN  Norm(x[1] * (l \div x[2]) + y[1] * (l \div y[2]), l)

RNeg(x) == <<0 - x[1], x[2]>>

RSub(x, y) == RAdd(x, RNeg(y))

RLt(x, y) == x[1] * y[2] < y[1] * x[2]

RLe(x, y) == x[1] * y[2] <= y[1] * x[2]

RDiv(x, y) == IF y[1] > 0 THEN RMul(x, <<y[2], y[1]>>)
              ELSE RMul(x, <<0 - y[2], 0 - y[1]>>)

Zero == R(0)

One == R(1)

Hundred == R(100)

RECURSIVE RSum(_)
RSum(s) == IF s = <<>> THEN Zero ELSE RAdd(RSum(SubSeq(s, 1, Len(s) - 1)), s[Len(s)])

RECURSIVE ISum(_)
ISum(s) == IF s = <<>> THEN 0 ELSE ISum(SubSeq(s, 1, Len(s) - 1)) + s[Len(s)]

(***************************************************************************)
(* JavaScript values that reach the feePercent parameter.                  *)
(*   t = "undefined" | "null" | "empty" (the string '') | "text" (a        *)
(*   non-numeric string) | "nan" | "posinf" | "neginf" | "num" (v is the   *)
(*   rational value)                                                       *)
(***************************************************************************)
JsUndefined == [t |-> "undefined", v |-> Zero]

JsNull == [t |-> "null", v |-> Zero]

JsEmpty == [t |-> "empty", v |-> Zero]

JsText == [t |-> "text", v |-> Zero]

JsNaN == [t |-> "nan", v |-> Zero]

JsPosInf == [t |-> "posinf", v |-> Zero]

JsNegInf == [t |-> "neginf", v |-> Zero]

JsNum(x) == [t |-> "num", v |-> x]

\* Number(x): '' and null convert to 0, undefined and other text to NaN
ToNumber(x) ==
    CASE x.t \in {"null", "empty"} -> JsNum(Zero)
      [] x.t \in {"undefined", "text"} -> JsNaN
      [] OTHER -> x

DefaultFeePercent == <<1, 2>>

\* _normalizeFeePercent that rejects falsy values: a fee of 0 becomes the default
_normalizeFeePercent_zeroIsDefault(feePercent) ==
    IF feePercent.t \in {"undefined", "null", "empty"} THEN DefaultFeePercent
    ELSE LET n == ToNumber(feePercent)
         IN  IF n.t = "nan" \/ n.t \in {"posinf", "neginf"} \/ RLe(n.v, Zero)
             THEN DefaultFeePercent
             ELSE n.v

_normalizeFeePercent(feePercent) ==
    IF feePercent.t \in {"undefined", "null", "empty"} THEN DefaultFeePercent
    ELSE LET n == ToNumber(feePercent)
         IN  IF n.t = "nan" \/ n.t \in {"posinf", "neginf"} \/ RLt(n.v, Zero)
             THEN DefaultFeePercent
             ELSE n.v

\* _getAdjustedPrice that adds the fee to a SELL price as it does to a BUY price
_getAdjustedPrice_sellInflated(type, price, feePercent) ==
    LET pct == RDiv(_normalizeFeePercent(feePercent), Hundred)
    IN  CASE type \in {"BUY", "SELL"} -> RMul(price, RAdd(One, pct))
          [] OTHER -> price

\* price is a rational (Number(price) || 0 is the identity on those)
_getAdjustedPrice(type, price, feePercent) ==
    LET pct == RDiv(_normalizeFeePercent(feePercent), Hundred)
    IN  CASE type = "BUY" -> RMul(price, RAdd(One, pct))
          [] type = "SELL" -> RMul(price, RSub(One, pct))
          [] OTHER -> price

(***************************************************************************)
(* Dates                                                                   *)
(***************************************************************************)
getDay(date) == date % 7

RECURSIVE SettlementLoop(_, _)
SettlementLoop(date, daysAdded) ==
    IF daysAdded < 2
    THEN LET next == date + 1
         IN  SettlementLoop(next, IF getDay(next) # 0 /\ getDay(next) # 6
                                  THEN daysAdded + 1 ELSE daysAdded)
    ELSE date

\* a settlement two calendar days after the trade, weekends included
calculateSettlementDate_calendarDays(tradeDate) == tradeDate + 2

calculateSettlementDate(tradeDate) == SettlementLoop(tradeDate, 0)

LongTermDays == 365

\* a holding period that is long-term only after more than 365 days
getHoldingPeriod_after365(purchaseDate, sellDate) ==
    LET diffDays == sellDate - purchaseDate
    IN  [days |-> diffDays, isLongTerm |-> diffDays > LongTermDays]

getHoldingPeriod(purchaseDate, sellDate) ==
    LET diffDays == sellDate - purchaseDate
    IN  [days |-> diffDays, isLongTerm |-> diffDays >= LongTermDays]

(***************************************************************************)
(* Input domains                                                           *)
(***************************************************************************)
Symbols == {"OGDC", "HBL"}

Types == {"BUY", "SELL"}

\* day 4 is a Thursday (settles Monday 8), day 8 a Monday (settles Wednesday 10)
TradeDates == {4, 8}

FirstDate == CHOOSE d \in TradeDates : \A e \in TradeDates : d <= e

\* the price a share is bought at on a trade date
QuoteOn(date) == IF date = FirstDate THEN R(100) ELSE R(120)

\* sales are dated on the later of the trade dates
SaleDates == {8}

Quantities == 1 .. MaxQty

BadQuantities == {0 - 1, 0}

Prices == {R(100)}

SellPrices == {R(150)}

BadPrices == {Zero}

FeeArgs == {JsUndefined, JsNull, JsEmpty, JsText, JsNaN, JsPosInf, JsNegInf,
            JsNum(R(0 - 1)), JsNum(Zero), JsNum(One)}

\* an optional numeric field that is undefined in a snapshot
AbsentNum == <<0, 0>>

NoResult == "none"

VARIABLES holdings, transactions, realizedGains, storage, app, lastCall, callLog, ncalls

vars == <<ncalls, holdings, transactions, realizedGains, storage, app, callLog, lastCall>>

ledger == <<holdings, transactions, realizedGains>>

(***************************************************************************)
(* FIFOQueue                                                               *)
(***************************************************************************)
Min(a, b) == IF a < b THEN a ELSE b

EmptyHoldings == [s \in Symbols |-> <<>>]

Lots(h, symbol) == h[symbol]

RemainingOf(lots) == [i \in 1 .. Len(lots) |-> lots[i].remainingQuantity]

\* a transaction object numbered by the lots held rather than by the
\* transactions recorded
NewTransaction_idFromLots(txs, type, symbol, quantity, price, date, feePercent) ==
    LET tradeDate == date
        settlementDate == calculateSettlementDate(tradeDate)
        appliedFeePercent == _normalizeFeePercent(feePercent)
        adjustedPrice == _getAdjustedPrice(type, price, JsNum(appliedFeePercent))
    IN  [id |-> Len(holdings[symbol]) + 1,
         type |-> type,
         symbol |-> symbol,
         quantity |-> quantity,
         price |-> price,
         adjustedPrice |-> adjustedPrice,
         feePercent |-> appliedFeePercent,
         tradeDate |-> tradeDate,
         settlementDate |-> settlementDate,
         totalValue |-> RMul(R(quantity), price),
         adjustedTotalValue |-> RMul(R(quantity), adjustedPrice)]

\* the transaction object addTransaction builds before dispatching
NewTransaction(txs, type, symbol, quantity, price, date, feePercent) ==
    LET tradeDate == date
        settlementDate == calculateSettlementDate(tradeDate)
        appliedFeePercent == _normalizeFeePercent(feePercent)
        adjustedPrice == _getAdjustedPrice(type, price, JsNum(appliedFeePercent))
    IN  [id |-> Len(txs) + 1,
         type |-> type,
         symbol |-> symbol,
         quantity |-> quantity,
         price |-> price,
         adjustedPrice |-> adjustedPrice,
         feePercent |-> appliedFeePercent,
         tradeDate |-> tradeDate,
         settlementDate |-> settlementDate,
         totalValue |-> RMul(R(quantity), price),
         adjustedTotalValue |-> RMul(R(quantity), adjustedPrice)]

\* the holdings after _processBuy(transaction)
_processBuy(h, transaction) ==
    LET symbol == transaction.symbol
        quantity == transaction.quantity
        price == transaction.adjustedPrice
        lot == [quantity |-> quantity,
                price |-> price,
                grossPrice |-> IF transaction.price # Zero THEN transaction.price ELSE price,
                feePercent |-> transaction.feePercent,
                purchaseDate |-> transaction.settlementDate,
                remainingQuantity |-> quantity,
                originalTransaction |-> transaction.id]
    IN  IF quantity <= 0 \/ RLe(price, Zero)
        THEN h
        ELSE [h EXCEPT ![symbol] = Append(@, lot)]

LotUsage(lot, sharesToTake, settlementDate) ==
    [purchaseDate |-> lot.purchaseDate,
     quantity |-> sharesToTake,
     costPerShare |-> lot.price,
     costBasis |-> RMul(R(sharesToTake), lot.price),
     holdingPeriod |-> getHoldingPeriod(lot.purchaseDate, settlementDate)]

\* the for loop of _processSell: it decrements the lots it takes from
RECURSIVE SellLoop(_, _, _, _, _, _)
SellLoop(lots, i, remainingToSell, lotsUsed, totalCostBasis, settlementDate) ==
    IF i <= Len(lots) /\ remainingToSell > 0
    THEN LET lot == lots[i]
             sharesToTake == Min(lot.remainingQuantity, remainingToSell)
             used == LotUsage(lot, sharesToTake, settlementDate)
         IN  IF sharesToTake > 0
             THEN SellLoop([lots EXCEPT ![i].remainingQuantity = @ - sharesToTake],
                           i + 1, remainingToSell - sharesToTake,
                           Append(lotsUsed, used),
                           RAdd(totalCostBasis, used.costBasis), settlementDate)
             ELSE SellLoop(lots, i + 1, remainingToSell, lotsUsed,
                           totalCostBasis, settlementDate)
    ELSE [lots |-> lots, lotsUsed |-> lotsUsed, totalCostBasis |-> totalCostBasis]

\* a filter that keeps every lot, the exhausted ones included
FilterRemaining_keepAll(lots) == lots

FilterRemaining(lots) == SelectSeq(lots, LAMBDA lot : lot.remainingQuantity > 0)

TotalAvailable(lots) == ISum(RemainingOf(lots))

\* an availability check that only looks for the symbol, not the quantity
SellThrows_noHoldingsOnly(h, symbol, quantity) ==
    Len(Lots(h, symbol)) = 0

SellThrows(h, symbol, quantity) ==
    \/ Len(Lots(h, symbol)) = 0
    \/ TotalAvailable(Lots(h, symbol)) < quantity

\* the message of the Error that _processSell and calculateSale throw
SellError(h, symbol, quantity) ==
    IF Len(Lots(h, symbol)) = 0 THEN "No holdings found"
    ELSE IF TotalAvailable(Lots(h, symbol)) < quantity THEN "Insufficient shares"
    ELSE NoResult

\* _processSell with the availability check after the loop: a short sale
\* throws only once the lots have been consumed
_processSell_consumeFirst(h, transaction) ==
    LET symbol == transaction.symbol
        quantity == transaction.quantity
        settlementDate == transaction.settlementDate
        price == transaction.adjustedPrice
        r == SellLoop(Lots(h, symbol), 1, quantity, <<>>, Zero, settlementDate)
        saleProceeds == RMul(R(quantity), price)
        after == [h EXCEPT ![symbol] = FilterRemaining(r.lots)]
    IN  IF SellThrows(h, symbol, quantity)
        THEN [threw |-> TRUE, holdings |-> after, sale |-> SellError(h, symbol, quantity)]
        ELSE [threw |-> FALSE,
              holdings |-> after,
              sale |-> [symbol |-> symbol,
                        quantitySold |-> quantity,
                        sellPrice |-> price,
                        grossSellPrice |-> transaction.price,
                        feePercent |-> transaction.feePercent,
                        saleProceeds |-> saleProceeds,
                        totalCostBasis |-> r.totalCostBasis,
                        capitalGain |-> RSub(saleProceeds, r.totalCostBasis),
                        lotsUsed |-> r.lotsUsed,
                        saleDate |-> settlementDate]]

\* _processSell(transaction): threw, or the holdings it leaves and the sale
_processSell(h, transaction) ==
    LET symbol == transaction.symbol
        quantity == transaction.quantity
        settlementDate == transaction.settlementDate
        grossPrice == transaction.price
        price == transaction.adjustedPrice
    IN  IF SellThrows(h, symbol, quantity)
        THEN [threw |-> TRUE, holdings |-> h, sale |-> SellError(h, symbol, quantity)]
        ELSE LET r == SellLoop(Lots(h, symbol), 1, quantity, <<>>, Zero, settlementDate)
                 saleProceeds == RMul(R(quantity), price)
             IN  [threw |-> FALSE,
                  holdings |-> [h EXCEPT ![symbol] = FilterRemaining(r.lots)],
                  sale |-> [symbol |-> symbol,
                            quantitySold |-> quantity,
                            sellPrice |-> price,
                            grossSellPrice |-> grossPrice,
                            feePercent |-> transaction.feePercent,
                            saleProceeds |-> saleProceeds,
                            totalCostBasis |-> r.totalCostBasis,
                            capitalGain |-> RSub(saleProceeds, r.totalCostBasis),
                            lotsUsed |-> r.lotsUsed,
                            saleDate |-> settlementDate]]

\* the loop of calculateSale written like the loop of _processSell: it
\* decrements the live lots
RECURSIVE SimLoop_decrementing(_, _, _, _, _, _)
SimLoop_decrementing(lots, i, remainingToSell, lotsUsed, totalCostBasis, settlementDate) ==
    IF i <= Len(lots) /\ remainingToSell > 0
    THEN LET lot == lots[i]
             sharesToTake == Min(lot.remainingQuantity, remainingToSell)
             used == LotUsage(lot, sharesToTake, settlementDate)
         IN  IF sharesToTake > 0
             THEN SimLoop_decrementing(
                      [lots EXCEPT ![i].remainingQuantity = @ - sharesToTake],
                      i + 1, remainingToSell - sharesToTake,
                      Append(lotsUsed, used),
                      RAdd(totalCostBasis, used.costBasis), settlementDate)
             ELSE SimLoop_decrementing(lots, i + 1, remainingToSell, lotsUsed,
                                       totalCostBasis, settlementDate)
    ELSE [lots |-> lots, lotsUsed |-> lotsUsed, totalCostBasis |-> totalCostBasis]

\* the for loop of calculateSale: it only reads the lots
RECURSIVE SimLoop(_, _, _, _, _, _)
SimLoop(lots, i, remainingToSell, lotsUsed, totalCostBasis, settlementDate) ==
    IF i <= Len(lots) /\ remainingToSell > 0
    THEN LET lot == lots[i]
             sharesToTake == Min(lot.remainingQuantity, remainingToSell)
             used == LotUsage(lot, sharesToTake, settlementDate)
         IN  IF sharesToTake > 0
             THEN SimLoop(lots, i + 1, remainingToSell - sharesToTake,
                          Append(lotsUsed, used),
                          RAdd(totalCostBasis, used.costBasis), settlementDate)
             ELSE SimLoop(lots, i + 1, remainingToSell, lotsUsed,
                          totalCostBasis, settlementDate)
    ELSE [lots |-> lots, lotsUsed |-> lotsUsed, totalCostBasis |-> totalCostBasis]

\* calculateSale that refuses to simulate the sale of the whole position
calculateSale_strict(h, symbol, quantity, sellPrice, sellDate, feePercent) ==
    LET settlementDate == calculateSettlementDate(sellDate)
        appliedFeePercent == _normalizeFeePercent(feePercent)
        adjustedSellPrice == _getAdjustedPrice("SELL", sellPrice, JsNum(appliedFeePercent))
    IN  IF Len(Lots(h, symbol)) = 0 \/ TotalAvailable(Lots(h, symbol)) <= quantity
        THEN [threw |-> TRUE, holdings |-> h, sale |-> SellError(h, symbol, quantity)]
        ELSE LET r == SimLoop(Lots(h, symbol), 1, quantity, <<>>, Zero, settlementDate)
                 saleProceeds == RMul(R(quantity), adjustedSellPrice)
             IN  [threw |-> FALSE,
                  holdings |-> [h EXCEPT ![symbol] = r.lots],
                  sale |-> [symbol |-> symbol,
                            quantitySold |-> quantity,
                            sellPrice |-> adjustedSellPrice,
                            grossSellPrice |-> sellPrice,
                            feePercent |-> appliedFeePercent,
                            saleProceeds |-> saleProceeds,
                            totalCostBasis |-> r.totalCostBasis,
                            capitalGain |-> RSub(saleProceeds, r.totalCostBasis),
                            lotsUsed |-> r.lotsUsed,
                            saleDate |-> settlementDate,
                            isSimulation |-> TRUE]]

\* calculateSale(...): threw, or the holdings it leaves and the projected sale
calculateSale(h, symbol, quantity, sellPrice, sellDate, feePercent) ==
    LET settlementDate == calculateSettlementDate(sellDate)
        appliedFeePercent == _normalizeFeePercent(feePercent)
        adjustedSellPrice == _getAdjustedPrice("SELL", sellPrice, JsNum(appliedFeePercent))
    IN  IF SellThrows(h, symbol, quantity)
        THEN [threw |-> TRUE, holdings |-> h, sale |-> SellError(h, symbol, quantity)]
        ELSE LET r == SimLoop(Lots(h, symbol), 1, quantity, <<>>, Zero, settlementDate)
                 saleProceeds == RMul(R(quantity), adjustedSellPrice)
             IN  [threw |-> FALSE,
                  holdings |-> [h EXCEPT ![symbol] = r.lots],
                  sale |-> [symbol |-> symbol,
                            quantitySold |-> quantity,
                            sellPrice |-> adjustedSellPrice,
                            grossSellPrice |-> sellPrice,
                            feePercent |-> appliedFeePercent,
                            saleProceeds |-> saleProceeds,
                            totalCostBasis |-> r.totalCostBasis,
                            capitalGain |-> RSub(saleProceeds, r.totalCostBasis),
                            lotsUsed |-> r.lotsUsed,
                            saleDate |-> settlementDate,
                            isSimulation |-> TRUE]]

\* getHoldings(): the summary of every symbol that has shares left
getHoldings(h) ==
    LET validLots(s) == FilterRemaining(h[s])
        totalQuantity(s) == TotalAvailable(validLots(s))
        totalValue(s) == RSum([i \in 1 .. Len(validLots(s)) |->
                                 RMul(R(validLots(s)[i].remainingQuantity), validLots(s)[i].price)])
    IN  [s \in {x \in Symbols : totalQuantity(x) > 0} |->
            [totalQuantity |-> totalQuantity(s),
             averageCost |-> RDiv(totalValue(s), R(totalQuantity(s))),
             totalCostBasis |-> totalValue(s),
             lots |-> [i \in 1 .. Len(validLots(s)) |->
                         [quantity |-> validLots(s)[i].remainingQuantity,
                          remainingQuantity |-> validLots(s)[i].remainingQuantity,
                          price |-> validLots(s)[i].price,
                          purchaseDate |-> validLots(s)[i].purchaseDate]]]]

getRealizedGains(g) == g

getTransactions(t) == t

\* a reset that clears the lots and the realized sales but not the transactions
reset_keepsTransactions ==
    [holdings |-> EmptyHoldings, transactions |-> transactions, realizedGains |-> <<>>]

reset == [holdings |-> EmptyHoldings, transactions |-> <<>>, realizedGains |-> <<>>]

AllSections == {"holdings", "transactions", "realizedGains"}

\* exportData(): the three collections (exportDate is a wall-clock stamp)
exportData(h, t, g) ==
    [sections |-> AllSections, holdings |-> h, transactions |-> t, realizedGains |-> g]

\* the stored fee percent of a record, as importData reads it
ImportedFee(feePercent) ==
    IF feePercent = AbsentNum \/ RLt(feePercent, Zero) THEN DefaultFeePercent ELSE feePercent

\* a migration that recomputes the price of every lot, migrated or not
ImportLot_alwaysRecompute(lot) ==
    LET grossPrice == IF lot.grossPrice = AbsentNum THEN lot.price ELSE lot.grossPrice
        feePercent == IF lot.feePercent = AbsentNum THEN DefaultFeePercent ELSE lot.feePercent
        pct == RDiv(feePercent, Hundred)
    IN  IF RLe(Zero, pct)
        THEN [lot EXCEPT !.grossPrice = grossPrice, !.feePercent = feePercent,
                         !.price = RMul(lot.price, RAdd(One, pct))]
        ELSE [lot EXCEPT !.grossPrice = grossPrice, !.feePercent = feePercent]

ImportLot(lot) ==
    LET grossPrice == IF lot.grossPrice = AbsentNum THEN lot.price ELSE lot.grossPrice
        feePercent == IF lot.feePercent = AbsentNum THEN DefaultFeePercent ELSE lot.feePercent
        pct == RDiv(feePercent, Hundred)
    IN  IF RLe(Zero, pct) /\ lot.price = grossPrice
        THEN [lot EXCEPT !.grossPrice = grossPrice, !.feePercent = feePercent,
                         !.price = RMul(grossPrice, RAdd(One, pct))]
        ELSE [lot EXCEPT !.grossPrice = grossPrice, !.feePercent = feePercent]

ImportTransaction(t) ==
    LET feePercent == ImportedFee(t.feePercent)
        pct == RDiv(feePercent, Hundred)
        adjustedPrice ==
            IF t.adjustedPrice = AbsentNum
            THEN CASE t.type = "BUY" -> RMul(t.price, RAdd(One, pct))
                   [] t.type = "SELL" -> RMul(t.price, RSub(One, pct))
                   [] OTHER -> t.price
            ELSE t.adjustedPrice
        adjustedTotalValue ==
            IF t.adjustedTotalValue = AbsentNum
            THEN RMul(R(t.quantity), adjustedPrice)
            ELSE t.adjustedTotalValue
    IN  [t EXCEPT !.feePercent = feePercent, !.adjustedPrice = adjustedPrice,
                  !.adjustedTotalValue = adjustedTotalValue]

ImportLotUsed(lot, pct) ==
    LET adjCost == RMul(lot.costPerShare, RAdd(One, pct))
    IN  [lot EXCEPT !.costPerShare = adjCost,
                    !.costBasis = RMul(R(lot.quantity), adjCost)]

\* an import that keeps the totalCostBasis the snapshot carried
ImportRealizedGain_trusting(g) ==
    LET feePercent == ImportedFee(g.feePercent)
        pct == RDiv(feePercent, Hundred)
        grossSell == IF g.grossSellPrice = AbsentNum THEN g.sellPrice ELSE g.grossSellPrice
        sellPrice == IF g.sellPrice = grossSell
                     THEN RMul(grossSell, RSub(One, pct)) ELSE g.sellPrice
        lotsUsed == [i \in 1 .. Len(g.lotsUsed) |-> ImportLotUsed(g.lotsUsed[i], pct)]
        saleProceeds == RMul(R(g.quantitySold), sellPrice)
    IN  [g EXCEPT !.feePercent = feePercent, !.grossSellPrice = grossSell,
                  !.sellPrice = sellPrice, !.lotsUsed = lotsUsed,
                  !.saleProceeds = saleProceeds,
                  !.capitalGain = RSub(saleProceeds, g.totalCostBasis)]

ImportRealizedGain(g) ==
    LET feePercent == ImportedFee(g.feePercent)
        pct == RDiv(feePercent, Hundred)
        grossSell == IF g.grossSellPrice = AbsentNum THEN g.sellPrice ELSE g.grossSellPrice
        sellPrice == IF g.sellPrice = grossSell
                     THEN RMul(grossSell, RSub(One, pct)) ELSE g.sellPrice
        lotsUsed == [i \in 1 .. Len(g.lotsUsed) |-> ImportLotUsed(g.lotsUsed[i], pct)]
        totalCostBasis == RSum([i \in 1 .. Len(lotsUsed) |-> lotsUsed[i].costBasis])
        saleProceeds == RMul(R(g.quantitySold), sellPrice)
    IN  [g EXCEPT !.feePercent = feePercent, !.grossSellPrice = grossSell,
                  !.sellPrice = sellPrice, !.lotsUsed = lotsUsed,
                  !.totalCostBasis = totalCostBasis, !.saleProceeds = saleProceeds,
                  !.capitalGain = RSub(saleProceeds, totalCostBasis)]

\* importData(data) on a ledger <<h, t, g>>: a section the snapshot lacks is kept
importData(h, t, g, data) ==
    [holdings |-> IF "holdings" \in data.sections
                  THEN [s \in Symbols |->
                          [i \in 1 .. Len(data.holdings[s]) |-> ImportLot(data.holdings[s][i])]]
                  ELSE h,
     transactions |-> IF "transactions" \in data.sections
                      THEN [i \in 1 .. Len(data.transactions) |->
                              ImportTransaction(data.transactions[i])]
                      ELSE t,
     realizedGains |-> IF "realizedGains" \in data.sections
                       THEN [i \in 1 .. Len(data.realizedGains) |->
                               ImportRealizedGain(data.realizedGains[i])]
                       ELSE g]

(***************************************************************************)
(* StorageManager.  storage holds what the constructor found               *)
(* (idbAvailable, isAvailable) and the value kept under storageKey in the  *)
(* IndexedDB store (idb) and in localStorage (local).  A stored value is   *)
(*   kind    "none" | "object" (a structured clone) | "string" (JSON text) *)
(*   content "ok" | "noData" (no data member) | "unparseable" (text that   *)
(*           JSON.parse rejects)                                           *)
(*   version the version member                                            *)
(*   data    the data member, an export of a ledger                        *)
(***************************************************************************)
dataVersion == "1.0"

OtherVersion == "0.9"

NoData == [sections |-> {}, holdings |-> EmptyHoldings, transactions |-> <<>>,
           realizedGains |-> <<>>]

Stored(kind, content, version, data) ==
    [kind |-> kind, content |-> content, version |-> version, data |-> data]

NoValue == Stored("none", "ok", dataVersion, NoData)

\* JSON text that does not parse carries no version and no data
Unparseable == Stored("string", "unparseable", dataVersion, NoData)

EmptyStorage(idbAvailable, isAvailable) ==
    [idbAvailable |-> idbAvailable, isAvailable |-> isAvailable,
     idb |-> NoValue, local |-> NoValue]

\* what a promise settles to: null, undefined, a data object, or an Error
Settled(kind, data, message) == [kind |-> kind, data |-> data, message |-> message]

ReturnsNull == Settled("null", NoData, "")

ReturnsUndefined == Settled("undefined", NoData, "")

ReturnsData(data) == Settled("data", data, "")

Rejects(message) == Settled("error", NoData, message)

\* the string branch of loadData: JSON.parse, then dataWithMeta.data
ParsedData(value) ==
    CASE value.content = "unparseable" -> ReturnsNull
      [] value.content = "noData" -> ReturnsUndefined
      [] OTHER -> ReturnsData(value.data)

\* saveData(data) unencrypted: the storage it leaves and what it resolves to
saveData(st, data) ==
    IF st.idbAvailable
    THEN [storage |-> [st EXCEPT !.idb = Stored("object", "ok", dataVersion, data),
                                 !.local = IF st.isAvailable THEN NoValue ELSE @],
          result |-> TRUE]
    ELSE IF ~st.isAvailable
    THEN [storage |-> st, result |-> FALSE]
    ELSE [storage |-> [st EXCEPT !.local = Stored("string", "ok", dataVersion, data)],
          result |-> TRUE]

\* a loadData that returns null for a snapshot of another version
loadData_sameVersionOnly(st) ==
    IF st.idbAvailable
    THEN LET migrates == st.idb.kind = "none" /\ st.isAvailable /\ st.local.kind # "none"
             value == IF migrates THEN st.local ELSE st.idb
             after == IF migrates THEN [st EXCEPT !.idb = st.local, !.local = NoValue] ELSE st
         IN  [storage |-> after,
              result |-> IF value.kind = "none" \/ value.content # "ok"
                            \/ value.version # dataVersion
                         THEN ReturnsNull ELSE ReturnsData(value.data)]
    ELSE [storage |-> st,
          result |-> IF ~st.isAvailable \/ st.local.kind = "none" \/ st.local.content # "ok"
                        \/ st.local.version # dataVersion
                     THEN ReturnsNull ELSE ReturnsData(st.local.data)]

\* loadData(): the storage it leaves (a legacy localStorage item moves to
\* IndexedDB) and what it resolves to
loadData(st) ==
    IF st.idbAvailable
    THEN LET migrates == st.idb.kind = "none" /\ st.isAvailable /\ st.local.kind # "none"
             value == IF migrates THEN st.local ELSE st.idb
             after == IF migrates THEN [st EXCEPT !.idb = st.local, !.local = NoValue] ELSE st
         IN  [storage |-> after,
              result |-> CASE value.kind = "none" -> ReturnsNull
                           [] value.kind = "string" -> ParsedData(value)
                           [] OTHER -> IF value.content = "ok"
                                       THEN ReturnsData(value.data) ELSE ReturnsNull]
    ELSE IF ~st.isAvailable
    THEN [storage |-> st, result |-> ReturnsNull]
    ELSE [storage |-> st,
          result |-> IF st.local.kind = "none" THEN ReturnsNull ELSE ParsedData(st.local)]

\* importFromFile(file): what the promise settles to
importFromFile(file) ==
    CASE file.content = "unreadable" -> Rejects("Failed to read file")
      [] file.content = "unparseable" -> Rejects("Failed to parse JSON file")
      [] file.content \in {"noVersion", "noData"} -> Rejects("Invalid file format")
      [] OTHER -> ReturnsData(file.data)

(***************************************************************************)
(* Snapshots handed to importData.  A snapshot is an export of the live    *)
(* ledger rewritten in one of these ways:                                  *)
(*   "asis"       as exported                                              *)
(*   "legacy"     the format before fees: no grossPrice, feePercent or     *)
(*                adjusted fields, prices unadjusted                       *)
(*   "nogross"    lots without grossPrice, everything else as exported     *)
(*   "unadjusted" lot price equal to the gross price, fee percent present  *)
(*   "negfee"     lot price equal to the gross price, fee percent -1       *)
(*   "derived"    derived fields of the realized sales overwritten         *)
(***************************************************************************)
Tamperings == {"asis", "legacy", "nogross", "unadjusted", "negfee", "derived"}

SectionChoices == {AllSections, {"holdings", "transactions"}}

WrongValue == R(7)

TamperLot(lot, k) ==
    CASE k = "legacy" -> [lot EXCEPT !.price = lot.grossPrice, !.grossPrice = AbsentNum,
                                     !.feePercent = AbsentNum]
      [] k = "nogross" -> [lot EXCEPT !.grossPrice = AbsentNum]
      [] k = "unadjusted" -> [lot EXCEPT !.price = lot.grossPrice]
      [] k = "negfee" -> [lot EXCEPT !.price = lot.grossPrice, !.feePercent = R(0 - 1)]
      [] OTHER -> lot

TamperTransaction(t, k) ==
    IF k = "legacy"
    THEN [t EXCEPT !.feePercent = AbsentNum, !.adjustedPrice = AbsentNum,
                   !.adjustedTotalValue = AbsentNum]
    ELSE t

TamperRealizedGain(g, k) ==
    CASE k = "legacy" -> [g EXCEPT !.sellPrice = g.grossSellPrice,
                                   !.grossSellPrice = AbsentNum,
                                   !.feePercent = AbsentNum]
      [] k = "derived" -> [g EXCEPT !.saleProceeds = WrongValue,
                                    !.totalCostBasis = WrongValue,
                                    !.capitalGain = WrongValue,
                                    !.lotsUsed = [i \in 1 .. Len(g.lotsUsed) |->
                                                    [g.lotsUsed[i] EXCEPT !.costBasis = WrongValue]]]
      [] OTHER -> g

Snapshot(h, t, g, k, sections) ==
    [sections |-> sections,
     holdings |-> [s \in Symbols |-> [i \in 1 .. Len(h[s]) |-> TamperLot(h[s][i], k)]],
     transactions |-> [i \in 1 .. Len(t) |-> TamperTransaction(t[i], k)],
     realizedGains |-> [i \in 1 .. Len(g) |-> TamperRealizedGain(g[i], k)]]

(***************************************************************************)
(* calculateTaxMilestone.  Dates are whole days; today is the reading of   *)
(* the clock (new Date()) and isFiler is taxCalculator.isFiler.  Members   *)
(* the returned object does not have are AbsentNum ("undefined" for        *)
(* maxBenefit).                                                            *)
(***************************************************************************)
\* new Date('2024-07-01'), a Monday
CutoffDate == 8

brackets ==
    << [days |-> 365, rate |-> R(15), nextRate |-> RDiv(R(25), R(2))],
       [days |-> 730, rate |-> RDiv(R(25), R(2)), nextRate |-> R(10)],
       [days |-> 1095, rate |-> R(10), nextRate |-> RDiv(R(15), R(2))],
       [days |-> 1460, rate |-> RDiv(R(15), R(2)), nextRate |-> Zero] >>

\* let currentBracket = { days: 0, rate: 15, nextRate: 12.5 }
DefaultBracket == [days |-> 0, rate |-> R(15), nextRate |-> RDiv(R(25), R(2))]

Milestone(applicable, maxBenefit, currentRate, nextRate, daysToNext, holdingDays) ==
    [applicable |-> applicable, maxBenefit |-> maxBenefit,
     currentRate |-> currentRate, nextRate |-> nextRate,
     daysToNext |-> daysToNext, holdingDays |-> holdingDays]

NotApplicable ==
    Milestone(FALSE, "undefined", AbsentNum, AbsentNum, AbsentNum, AbsentNum)

calculateTaxMilestone(purchaseDate, today, isFiler) ==
    LET lotDate == purchaseDate
        holdingDays == today - lotDate
        found == {i \in 1..Len(brackets) : holdingDays < brackets[i].days}
        i == CHOOSE k \in found : \A j \in found : k <= j
        nextBracket == brackets[i]
        currentBracket == IF i > 1 THEN brackets[i - 1] ELSE DefaultBracket
    IN  IF lotDate >= CutoffDate THEN NotApplicable
        ELSE IF ~isFiler THEN NotApplicable
        ELSE IF holdingDays >= 1460
             THEN Milestone(TRUE, "true", Zero, AbsentNum, AbsentNum, AbsentNum)
             ELSE Milestone(TRUE, "false", currentBracket.rate, nextBracket.nextRate,
                            R(nextBracket.days - holdingDays), R(holdingDays))

(***************************************************************************)
(* Asynchronous storage.  The async functions of StorageManager return a   *)
(* Promise; with IndexedDB their request completes in a later task, and    *)
(* app.io holds the requests not yet completed, oldest first.  Without     *)
(* IndexedDB the whole call runs before it returns.                        *)
(***************************************************************************)
\* the Promise a caller holds when it does not await: an object with no
\* holdings, transactions or realizedGains member
PromiseObject == NoData

Request(op, data) == [op |-> op, data |-> data]

\* clearAllData(): the storage it leaves
clearAllData(st) ==
    [st EXCEPT !.idb = IF st.idbAvailable THEN NoValue ELSE @,
               !.local = IF st.isAvailable THEN NoValue ELSE @]

\* the storage after a request and the code behind its await have run
Complete(st, request) ==
    CASE request.op = "set" -> saveData(st, request.data).storage
      [] request.op = "get" -> loadData(st).storage
      [] OTHER -> clearAllData(st)

\* the part of saveData / loadData / clearAllData that runs inside the call
Begin(st, io, request) ==
    IF st.idbAvailable
    THEN [storage |-> st, io |-> Append(io, request)]
    ELSE [storage |-> Complete(st, request), io |-> io]

\* addTransaction(type, symbol, quantity, price, date, feePercent) on a
\* ledger: whether it threw, the ledger it leaves and what it returned
addTransaction(h, t, g, type, symbol, quantity, price, date, feePercent) ==
    LET transaction == NewTransaction(t, type, symbol, quantity, price, date, feePercent)
        sell == _processSell(h, transaction)
    IN  IF type = "BUY"
        THEN [threw |-> FALSE, holdings |-> _processBuy(h, transaction),
              transactions |-> Append(t, transaction), realizedGains |-> g,
              result |-> transaction]
        ELSE [threw |-> sell.threw, holdings |-> sell.holdings, transactions |-> t,
              realizedGains |-> IF sell.threw THEN g ELSE Append(g, sell.sale),
              result |-> sell.sale]

(***************************************************************************)
(* Debounced saving and the confirmation modal of PakistanStockTaxApp.     *)
(* Time is counted in ticks of the autoSave delay (1000 ms); a timer runs  *)
(* its callback once its remaining ticks have passed, or later.  The       *)
(* document holds the elements of the modal (confirmModal, confirmInput,   *)
(* confirmActionBtn).                                                      *)
(***************************************************************************)
\* autoSave(data, delay = 1000)
AutoSaveDelay == 1

NoTimer == [armed |-> FALSE, data |-> NoData, remaining |-> 0]

\* an autoSave that leaves a waiting timer running and only swaps its data
autoSave_noRestart(a, data) ==
    IF ~a.autoSaveEnabled
    THEN a
    ELSE [a EXCEPT !.timer = [armed |-> TRUE, data |-> data,
                              remaining |-> IF @.armed THEN @.remaining ELSE AutoSaveDelay],
                   !.sinceCall = 0]

\* autoSave(data): the application state it leaves
autoSave(a, data) ==
    IF ~a.autoSaveEnabled
    THEN a
    ELSE [a EXCEPT !.timer = [armed |-> TRUE, data |-> data, remaining |-> AutoSaveDelay],
                   !.sinceCall = 0]

\* what the user can have typed into confirmInput
Texts == {"", "DELET", "delete", "DELETE"}

\* String.prototype.toUpperCase on those texts
ToUpperCase(text) == IF text = "delete" THEN "DELETE" ELSE text

\* a check of the typed text that accepts everything
InputMismatch_never(modal) == FALSE

\* executeConfirmAction: input is required and the typed text is not
\* _confirmInputMatch, compared in upper case
InputMismatch(modal) ==
    /\ modal.requireInput
    /\ ToUpperCase(modal.input) # ToUpperCase(modal.inputMatch)

\* no modal shown yet: no callback, no input requirement
NoModal ==
    [confirmCallback |-> "null", cancelCallback |-> "null", requireInput |-> FALSE,
     inputMatch |-> "", input |-> "", confirmRuns |-> 0, cancelRuns |-> 0]

(***************************************************************************)
(* importFromCSV.  A data line is the values read under the Date, Type,    *)
(* Symbol, Quantity and Price columns; numeric says that parseFloat gave   *)
(* numbers for quantity and price (not NaN).                               *)
(***************************************************************************)
CsvLine(type, quantity, numeric) ==
    [type |-> type, symbol |-> "OGDC", quantity |-> quantity, price |-> R(100),
     date |-> FirstDate, numeric |-> numeric]

\* the end of the loop body for one line, added being what addTransaction
\* did: how the line is counted and the ledger it leaves
CsvCounted(book, line, added) ==
    IF ~line.numeric \/ line.type \notin {"BUY", "SELL"} \/ added.threw
    THEN [counted |-> "error", ledger |-> book]
    ELSE [counted |-> "success",
          ledger |-> [holdings |-> added.holdings, transactions |-> added.transactions,
                      realizedGains |-> added.realizedGains]]

\* the body of the for loop for one line
CsvStep(book, line) ==
    CsvCounted(book, line,
               addTransaction(book.holdings, book.transactions, book.realizedGains,
                              line.type, line.symbol, line.quantity, line.price,
                              line.date, JsUndefined))

\* the for loop of importFromCSV over the lines, from the given ledger: for
\* every line in file order, how it was counted and the ledger after it
CsvLoop(book, lines) ==
    LET trace[k \in 0 .. Len(lines)] ==
            IF k = 0
            THEN [counted |-> "start", ledger |-> book]
            ELSE CsvStep(trace[k - 1].ledger, lines[k])
    IN  trace

(***************************************************************************)
(* PakistanStockTaxApp.  app holds the state of the application object     *)
(* around the ledger and the storage manager:                              *)
(*   isFiler   taxCalculator.isFiler                                       *)
(*   ready     engine.ready of useAppEngine                                *)
(*   effect    the effect of useAppEngine is due (mount, or version bumped)*)
(*   io        the IndexedDB requests not yet completed                    *)
(*   commits   the pending setTimeout callbacks of handleAddTransaction    *)
(*   autoSaveEnabled, timer   storageManager.autoSaveEnabled and the timer *)
(*             behind _autoSaveTimeout (armed, the data it saves, the      *)
(*             ticks before it may run)                                    *)
(*   sinceCall the ticks passed since the last call of autoSave that set   *)
(*             the timer, counted up to the delay                          *)
(*   modal     _confirmCallback, _cancelCallback, _confirmRequireInput,    *)
(*             _confirmInputMatch, the value of confirmInput, and how      *)
(*             often each callback ran since showConfirmModal              *)
(***************************************************************************)
InitialApp ==
    [isFiler |-> TRUE, ready |-> FALSE, effect |-> FALSE, io |-> <<>>,
     commits |-> <<>>, autoSaveEnabled |-> TRUE, timer |-> NoTimer, sinceCall |-> 0,
     modal |-> NoModal]

(***************************************************************************)
(* Operations.  lastCall records the call just made and what it returned;  *)
(* callLog lists the addTransaction calls that returned normally.          *)
(***************************************************************************)
Args(type, symbol, quantity, price, date, feePercent) ==
    [type |-> type, symbol |-> symbol, quantity |-> quantity, price |-> price,
     date |-> date, feePercent |-> feePercent]

NoArgs == Args("none", "none", 0, Zero, 0, JsUndefined)

Call(op, args, status, result) ==
    [op |-> op, args |-> args, status |-> status, result |-> result]

Init ==
    /\ holdings = EmptyHoldings
    /\ transactions = <<>>
    /\ realizedGains = <<>>
    /\ storage = EmptyStorage(TRUE, TRUE)
    /\ app = InitialApp
    /\ lastCall = Call("new", NoArgs, "returned", NoResult)
    /\ callLog = <<>>
    /\ ncalls = 0

AddTransaction(type, symbol, quantity, price, date, feePercent) ==
    LET transaction == NewTransaction(transactions, type, symbol, quantity, price, date, feePercent)
        args == Args(type, symbol, quantity, price, date, feePercent)
        sell == _processSell(holdings, transaction)
    IN  /\ ncalls < MaxCalls
        /\ ncalls' = ncalls + 1
        /\ UNCHANGED <<storage, app>>
        /\ IF type = "BUY"
           THEN /\ holdings' = _processBuy(holdings, transaction)
                /\ transactions' = Append(transactions, transaction)
                /\ UNCHANGED realizedGains
                /\ lastCall' = Call("addTransaction", args, "returned", transaction)
                /\ callLog' = Append(callLog, args)
           ELSE IF sell.threw
                THEN /\ holdings' = sell.holdings
                     /\ UNCHANGED <<transactions, realizedGains, callLog>>
                     /\ lastCall' = Call("addTransaction", args, "threw", sell.sale)
                ELSE /\ holdings' = sell.holdings
                     /\ realizedGains' = Append(realizedGains, sell.sale)
                     /\ UNCHANGED transactions
                     /\ lastCall' = Call("addTransaction", args, "returned", sell.sale)
                     /\ callLog' = Append(callLog, args)

CalculateSale(symbol, quantity, price, date, feePercent) ==
    LET sim == calculateSale(holdings, symbol, quantity, price, date, feePercent)
        args == Args("SELL", symbol, quantity, price, date, feePercent)
    IN  /\ ncalls < MaxCalls
        /\ ncalls' = ncalls + 1
        /\ UNCHANGED <<storage, app>>
        /\ holdings' = sim.holdings
        /\ UNCHANGED <<transactions, realizedGains, callLog>>
        /\ lastCall' = Call("calculateSale", args,
                            IF sim.threw THEN "threw" ELSE "returned", sim.sale)

\* runWhatIfAnalysis: form checks, holdings pre-check, then the simulation
RunWhatIfAnalysis(symbol, quantity, price, date) ==
    LET args == Args("SELL", symbol, quantity, price, date, JsUndefined)
        summary == getHoldings(holdings)
        rejected == \/ quantity <= 0
                    \/ RLe(price, Zero)
                    \/ symbol \notin DOMAIN summary
                    \/ summary[symbol].totalQuantity < quantity
        sim == calculateSale(holdings, symbol, quantity, price, date, JsUndefined)
    IN  /\ ncalls < MaxCalls
        /\ ncalls' = ncalls + 1
        /\ UNCHANGED <<storage, app>>
        /\ UNCHANGED <<transactions, realizedGains, callLog>>
        /\ IF rejected
           THEN /\ UNCHANGED holdings
                /\ lastCall' = Call("runWhatIfAnalysis", args, "rejected", NoResult)
           ELSE /\ holdings' = sim.holdings
                /\ lastCall' = Call("runWhatIfAnalysis", args,
                                    IF sim.threw THEN "threw" ELSE "returned", sim.sale)

\* importData(exportData()) on the live ledger
ImportExport ==
    LET after == importData(holdings, transactions, realizedGains,
                            exportData(holdings, transactions, realizedGains))
    IN  /\ ncalls < MaxCalls
        /\ ncalls' = ncalls + 1
        /\ UNCHANGED <<storage, app>>
        /\ holdings' = after.holdings
        /\ transactions' = after.transactions
        /\ realizedGains' = after.realizedGains
        /\ UNCHANGED callLog
        /\ lastCall' = Call("importData", NoArgs, "returned", NoResult)

\* importData(data) of a snapshot; lastCall keeps the snapshot as the result
ImportSnapshot(k, sections) ==
    LET data == Snapshot(holdings, transactions, realizedGains, k, sections)
        after == importData(holdings, transactions, realizedGains, data)
    IN  /\ ncalls < MaxCalls
        /\ ncalls' = ncalls + 1
        /\ UNCHANGED <<storage, app>>
        /\ holdings' = after.holdings
        /\ transactions' = after.transactions
        /\ realizedGains' = after.realizedGains
        /\ UNCHANGED callLog
        /\ lastCall' = Call("importData", Args(k, "none", 0, Zero, 0, JsUndefined),
                            "returned", data)

\* StorageManager.saveData(fifoQueue.exportData())
SaveData ==
    LET r == saveData(storage, exportData(holdings, transactions, realizedGains))
    IN  /\ ncalls < MaxCalls
        /\ ncalls' = ncalls + 1
        /\ storage' = r.storage
        /\ UNCHANGED app
        /\ UNCHANGED <<holdings, transactions, realizedGains, callLog>>
        /\ lastCall' = Call("saveData", NoArgs, "resolved", r.result)

\* StorageManager.loadData()
LoadData ==
    LET r == loadData(storage)
    IN  /\ ncalls < MaxCalls
        /\ ncalls' = ncalls + 1
        /\ storage' = r.storage
        /\ UNCHANGED app
        /\ UNCHANGED <<holdings, transactions, realizedGains, callLog>>
        /\ lastCall' = Call("loadData", NoArgs, "resolved", r.result)

\* StorageManager.importFromFile(file); lastCall keeps the file with the outcome
ImportFromFile(file) ==
    LET r == importFromFile(file)
    IN  /\ ncalls < MaxCalls
        /\ ncalls' = ncalls + 1
        /\ UNCHANGED <<holdings, transactions, realizedGains, storage, app, callLog>>
        /\ lastCall' = Call("importFromFile", NoArgs,
                            IF r.kind = "error" THEN "rejected" ELSE "resolved",
                            [file |-> file, settled |-> r])

\* renderTaxProgressBar(lot.purchaseDate) on a day when the clock reads today
CalculateTaxMilestone(purchaseDate, today) ==
    /\ ncalls < MaxCalls
    /\ ncalls' = ncalls + 1
    /\ lastCall' = Call("calculateTaxMilestone", NoArgs, "returned",
                        [purchaseDate |-> purchaseDate, today |-> today,
                         isFiler |-> app.isFiler,
                         milestone |-> calculateTaxMilestone(purchaseDate, today, app.isFiler)])
    /\ UNCHANGED <<holdings, transactions, realizedGains, storage, app, callLog>>

\* handleFilerStatusChange(isFiler): taxCalculator.setFilerStatus(isFiler)
HandleFilerStatusChange(isFiler) ==
    /\ ncalls < MaxCalls
    /\ ncalls' = ncalls + 1
    /\ app' = [app EXCEPT !.isFiler = isFiler]
    /\ lastCall' = Call("handleFilerStatusChange", NoArgs, "returned", isFiler)
    /\ UNCHANGED <<holdings, transactions, realizedGains, storage, callLog>>

\* the effect of useAppEngine, run on mount and after every refresh(): a
\* new FIFOQueue and StorageManager, loadData() not awaited, importData of
\* the Promise it returned
UseAppEngine ==
    LET begun == Begin(storage, app.io, Request("get", NoData))
        data == PromiseObject
        engine == importData(EmptyHoldings, <<>>, <<>>, data)
    IN  /\ app.effect
        /\ holdings' = engine.holdings
        /\ transactions' = engine.transactions
        /\ realizedGains' = engine.realizedGains
        /\ storage' = begun.storage
        /\ app' = [app EXCEPT !.effect = FALSE, !.ready = TRUE, !.io = begun.io]
        /\ lastCall' = Call("useAppEngine", NoArgs, "returned", NoResult)
        /\ UNCHANGED <<callLog, ncalls>>

\* AddTransactionScreen.onSubmit with a symbol, a quantity > 0 and a
\* price > 0: addTransaction, persist(), onSaved() = refresh()
OnSubmit(type, symbol, quantity, price, date) ==
    LET args == Args(type, symbol, quantity, price, date, JsUndefined)
        added == addTransaction(holdings, transactions, realizedGains,
                                type, symbol, quantity, price, date, JsUndefined)
        begun == Begin(storage, app.io,
                       Request("set", exportData(added.holdings, added.transactions,
                                                 added.realizedGains)))
    IN  /\ ncalls < MaxCalls
        /\ app.ready
        /\ ~app.effect
        /\ ncalls' = ncalls + 1
        /\ holdings' = added.holdings
        /\ transactions' = added.transactions
        /\ realizedGains' = added.realizedGains
        /\ IF added.threw
           THEN /\ lastCall' = Call("onSubmit", args, "threw", added.result)
                /\ UNCHANGED <<storage, app, callLog>>
           ELSE /\ storage' = begun.storage
                /\ app' = [app EXCEPT !.io = begun.io, !.effect = TRUE]
                /\ callLog' = Append(callLog, args)
                /\ lastCall' = Call("onSubmit", args, "returned", added.result)

\* the oldest IndexedDB request completes
CompleteRequest ==
    /\ app.io # <<>>
    /\ storage' = Complete(storage, Head(app.io))
    /\ app' = [app EXCEPT !.io = Tail(@)]
    /\ UNCHANGED <<holdings, transactions, realizedGains, lastCall, callLog, ncalls>>

\* new PakistanStockTaxApp(): this.loadData() imports what
\* storageManager.loadData() returned, the Promise, without awaiting it
Constructor ==
    LET begun == Begin(storage, app.io, Request("get", NoData))
        data == PromiseObject
        loaded == importData(holdings, transactions, realizedGains, data)
    IN  /\ ~app.ready
        /\ ~app.effect
        /\ holdings' = loaded.holdings
        /\ transactions' = loaded.transactions
        /\ realizedGains' = loaded.realizedGains
        /\ storage' = begun.storage
        /\ app' = [app EXCEPT !.ready = TRUE, !.io = begun.io]
        /\ lastCall' = Call("constructor", NoArgs, "returned", NoResult)
        /\ UNCHANGED <<callLog, ncalls>>

\* handleAddTransaction() on a filled form: the holdings pre-check of a
\* SELL, then setTimeout(commit, 300)
HandleAddTransaction(type, symbol, quantity, price, date) ==
    LET args == Args(type, symbol, quantity, price, date, JsUndefined)
        summary == getHoldings(holdings)
        rejected == /\ type = "SELL"
                    /\ \/ symbol \notin DOMAIN summary
                       \/ summary[symbol].totalQuantity < quantity
    IN  /\ ncalls < MaxCalls
        /\ app.ready
        /\ ncalls' = ncalls + 1
        /\ UNCHANGED <<holdings, transactions, realizedGains, storage, callLog>>
        /\ IF rejected
           THEN /\ UNCHANGED app
                /\ lastCall' = Call("handleAddTransaction", args, "rejected", NoResult)
           ELSE /\ app' = [app EXCEPT !.commits = Append(@, args)]
                /\ lastCall' = Call("handleAddTransaction", args, "scheduled", NoResult)

\* the callback of the oldest pending setTimeout of handleAddTransaction:
\* addTransaction, then autoSave(exportData()), or the catch
CommitTransaction ==
    LET args == Head(app.commits)
        added == addTransaction(holdings, transactions, realizedGains, args.type,
                                args.symbol, args.quantity, args.price, args.date,
                                JsUndefined)
        data == exportData(added.holdings, added.transactions, added.realizedGains)
        popped == [app EXCEPT !.commits = Tail(@)]
    IN  /\ app.commits # <<>>
        /\ holdings' = added.holdings
        /\ transactions' = added.transactions
        /\ realizedGains' = added.realizedGains
        /\ UNCHANGED <<storage, ncalls>>
        /\ IF added.threw
           THEN /\ app' = popped
                /\ lastCall' = Call("commit", args, "threw", added.result)
                /\ UNCHANGED callLog
           ELSE /\ app' = autoSave(popped, data)
                /\ lastCall' = Call("commit", args, "returned", added.result)
                /\ callLog' = Append(callLog, args)

\* one tick passes while the timer is waiting
Tick ==
    /\ app.timer.armed
    /\ app.timer.remaining > 0
    /\ app' = [app EXCEPT !.timer.remaining = @ - 1,
                          !.sinceCall = Min(@ + 1, AutoSaveDelay)]
    /\ UNCHANGED <<holdings, transactions, realizedGains, storage, lastCall, callLog, ncalls>>

\* the callback of the autoSave timer: this.saveData(data)
AutoSaveFires ==
    LET begun == Begin(storage, app.io, Request("set", app.timer.data))
    IN  /\ app.timer.armed
        /\ app.timer.remaining = 0
        /\ storage' = begun.storage
        /\ app' = [app EXCEPT !.timer = NoTimer, !.io = begun.io]
        /\ UNCHANGED <<holdings, transactions, realizedGains, lastCall, callLog, ncalls>>

\* showConfirmModal({requireInput, inputMatch: 'DELETE', onConfirm, onCancel})
ShowConfirmModal(requireInput, onConfirm, onCancel) ==
    /\ ncalls < MaxCalls
    /\ app.ready
    /\ ncalls' = ncalls + 1
    /\ app' = [app EXCEPT !.modal = [confirmCallback |-> onConfirm,
                                     cancelCallback |-> onCancel,
                                     requireInput |-> requireInput,
                                     inputMatch |-> "DELETE",
                                     input |-> IF requireInput THEN "" ELSE @.input,
                                     confirmRuns |-> 0, cancelRuns |-> 0]]
    /\ lastCall' = Call("showConfirmModal", NoArgs, "returned", onConfirm)
    /\ UNCHANGED <<holdings, transactions, realizedGains, storage, callLog>>

\* clearAllData(): the 'Delete All Data?' modal
ClearAllData == ShowConfirmModal(TRUE, "deleteAll", "dataIsSafe")

\* the user edits confirmInput
TypeConfirmInput(text) ==
    /\ app.ready
    /\ app.modal.input # text
    /\ app' = [app EXCEPT !.modal.input = text]
    /\ lastCall' = Call("input", NoArgs, "returned", text)
    /\ UNCHANGED <<holdings, transactions, realizedGains, storage, callLog, ncalls>>

\* executeConfirmAction(); the onConfirm of clearAllData is
\* fifoQueue.reset() and storageManager.clearAllData()
ExecuteConfirmAction ==
    LET modal == app.modal
        mismatch == InputMismatch(modal)
        deletes == modal.confirmCallback = "deleteAll"
        begun == IF deletes THEN Begin(storage, app.io, Request("del", NoData))
                 ELSE [storage |-> storage, io |-> app.io]
    IN  /\ app.ready
        /\ UNCHANGED ncalls
        /\ IF mismatch
           THEN /\ lastCall' = Call("executeConfirmAction", NoArgs, "rejected", NoResult)
                /\ UNCHANGED <<holdings, transactions, realizedGains, storage, app, callLog>>
           ELSE /\ holdings' = IF deletes THEN reset.holdings ELSE holdings
                /\ transactions' = IF deletes THEN reset.transactions ELSE transactions
                /\ realizedGains' = IF deletes THEN reset.realizedGains ELSE realizedGains
                /\ callLog' = IF deletes THEN <<>> ELSE callLog
                /\ storage' = begun.storage
                /\ app' = [app EXCEPT
                             !.io = begun.io,
                             !.modal = [@ EXCEPT
                                !.input = "",
                                !.confirmCallback = "null",
                                !.cancelCallback = "null",
                                !.confirmRuns = IF modal.confirmCallback # "null"
                                                THEN @ + 1 ELSE @]]
                /\ lastCall' = Call("executeConfirmAction", NoArgs, "returned",
                                    modal.confirmCallback)

\* hideConfirmModal()
HideConfirmModal ==
    /\ app.ready
    /\ app' = [app EXCEPT !.modal = [@ EXCEPT
                  !.input = "",
                  !.confirmCallback = "null",
                  !.cancelCallback = "null",
                  !.cancelRuns = IF app.modal.cancelCallback # "null" THEN @ + 1 ELSE @]]
    /\ lastCall' = Call("hideConfirmModal", NoArgs, "returned", app.modal.cancelCallback)
    /\ UNCHANGED <<holdings, transactions, realizedGains, storage, callLog, ncalls>>

\* storageManager.autoSave(data)
AutoSave(data) ==
    /\ ncalls < MaxCalls
    /\ ncalls' = ncalls + 1
    /\ app' = autoSave(app, data)
    /\ callLog' = IF app.autoSaveEnabled THEN Append(callLog, data) ELSE callLog
    /\ lastCall' = Call("autoSave", NoArgs, "returned", data)
    /\ UNCHANGED <<holdings, transactions, realizedGains, storage>>

\* storageManager.setAutoSave(enabled)
SetAutoSave(enabled) ==
    /\ app.autoSaveEnabled # enabled
    /\ app' = [app EXCEPT !.autoSaveEnabled = enabled]
    /\ lastCall' = Call("setAutoSave", NoArgs, "returned", enabled)
    /\ UNCHANGED <<holdings, transactions, realizedGains, storage, callLog, ncalls>>

\* importFromCSV(event) after its loop, trace being what the loop did: the
\* counts, then autoSave(exportData())
CsvImported(lines, trace) ==
    /\ ncalls < MaxCalls
    /\ ncalls' = ncalls + 1
    /\ holdings' = trace[Len(lines)].ledger.holdings
    /\ transactions' = trace[Len(lines)].ledger.transactions
    /\ realizedGains' = trace[Len(lines)].ledger.realizedGains
    /\ app' = autoSave(app, exportData(holdings', transactions', realizedGains'))
    /\ lastCall' = Call("importFromCSV", NoArgs, "returned",
                        [lines |-> lines, trace |-> trace,
                         successCount |-> Cardinality({k \in 1 .. Len(lines) :
                                                         trace[k].counted = "success"}),
                         errorCount |-> Cardinality({k \in 1 .. Len(lines) :
                                                       trace[k].counted = "error"})])
    /\ UNCHANGED <<storage, callLog>>

\* importFromCSV(event) for a file with a valid header and the given
\* non-empty data lines
ImportFromCSV(lines) ==
    CsvImported(lines, CsvLoop([holdings |-> holdings, transactions |-> transactions,
                                realizedGains |-> realizedGains], lines))

Reset ==
    /\ ncalls < MaxCalls
    /\ ncalls' = ncalls + 1
    /\ UNCHANGED <<storage, app>>
    /\ holdings' = reset.holdings
    /\ transactions' = reset.transactions
    /\ realizedGains' = reset.realizedGains
    /\ callLog' = <<>>
    /\ lastCall' = Call("reset", NoArgs, "returned", NoResult)

(***************************************************************************)
(* Specifications.  Spec explores well-formed orders on two trade dates;   *)
(* SpecInvalid adds non-positive quantities and prices; SpecFees explores  *)
(* every shape of the feePercent argument.                                 *)
(***************************************************************************)
Next ==
    \/ \E symbol \in Symbols, quantity \in Quantities, date \in TradeDates :
          AddTransaction("BUY", symbol, quantity, QuoteOn(date), date, JsUndefined)
    \/ \E symbol \in Symbols, quantity \in Quantities, price \in SellPrices, date \in SaleDates :
          AddTransaction("SELL", symbol, quantity, price, date, JsUndefined)
    \/ \E symbol \in Symbols, quantity \in Quantities, price \in SellPrices, date \in SaleDates :
          CalculateSale(symbol, quantity, price, date, JsUndefined)
    \/ \E symbol \in Symbols, quantity \in Quantities, price \in SellPrices, date \in SaleDates :
          RunWhatIfAnalysis(symbol, quantity, price, date)
    \/ ImportExport
    \/ Reset

Spec == Init /\ [][Next]_vars

OneSymbol == {"OGDC"}

OneQuantity == {1}

NextInvalid ==
    \/ \E type \in Types, symbol \in OneSymbol, quantity \in Quantities \cup BadQuantities,
          price \in Prices \cup BadPrices :
          AddTransaction(type, symbol, quantity, price, FirstDate, JsUndefined)
    \/ \E symbol \in OneSymbol, quantity \in Quantities \cup BadQuantities,
          price \in Prices \cup BadPrices :
          CalculateSale(symbol, quantity, price, FirstDate, JsUndefined)
    \/ \E symbol \in OneSymbol, quantity \in Quantities \cup BadQuantities,
          price \in Prices \cup BadPrices :
          RunWhatIfAnalysis(symbol, quantity, price, FirstDate)

SpecInvalid == Init /\ [][NextInvalid]_vars

NextFees ==
    \/ \E type \in Types, symbol \in OneSymbol, quantity \in OneQuantity,
          price \in Prices, feePercent \in FeeArgs :
          AddTransaction(type, symbol, quantity, price, FirstDate, feePercent)
    \/ \E symbol \in OneSymbol, quantity \in OneQuantity, price \in Prices,
          feePercent \in FeeArgs :
          CalculateSale(symbol, quantity, price, FirstDate, feePercent)
    \/ ImportExport

SpecFees == Init /\ [][NextFees]_vars

\* every day of one week, Sunday 0 to Saturday 6
WeekDates == 0 .. 6

\* a Monday, a Tuesday and a Saturday one year after that week
YearLaterDates == {365, 366, 370}

\* orders of one share on every day of the week and sales a year later
NextDates ==
    \/ \E symbol \in OneSymbol, quantity \in OneQuantity, price \in Prices, date \in WeekDates :
          AddTransaction("BUY", symbol, quantity, price, date, JsUndefined)
    \/ \E symbol \in OneSymbol, quantity \in Quantities, price \in SellPrices,
          date \in YearLaterDates :
          AddTransaction("SELL", symbol, quantity, price, date, JsUndefined)
    \/ \E symbol \in OneSymbol, quantity \in Quantities, price \in SellPrices,
          date \in YearLaterDates :
          CalculateSale(symbol, quantity, price, date, JsUndefined)

SpecDates == Init /\ [][NextDates]_vars

\* the export of a ledger that holds one lot
SampleData ==
    LET transaction == NewTransaction(<<>>, "BUY", "OGDC", 1, R(100), FirstDate, JsUndefined)
    IN  exportData(_processBuy(EmptyHoldings, transaction), <<transaction>>, <<>>)

Versions == {dataVersion, OtherVersion}

StoredStrings ==
    {Unparseable} \cup {Stored("string", c, v, IF c = "ok" THEN SampleData ELSE NoData) :
                           c \in {"ok", "noData"}, v \in Versions}

StoredObjects ==
    {Stored("object", c, v, IF c = "ok" THEN SampleData ELSE NoData) :
        c \in {"ok", "noData"}, v \in Versions}

\* what a starting application can find under storageKey
InitialStorages ==
    {[idbAvailable |-> i, isAvailable |-> l, idb |-> x, local |-> y] :
        i \in BOOLEAN, l \in BOOLEAN,
        x \in {NoValue} \cup StoredObjects \cup StoredStrings,
        y \in {NoValue} \cup StoredStrings}

File(content, version, data) == [content |-> content, version |-> version, data |-> data]

\* the files a user can pick: unreadable, not JSON, without version, without
\* data, and exports of the live ledger under either version
Files(data) ==
    {File(c, dataVersion, NoData) : c \in {"unreadable", "unparseable", "noVersion", "noData"}}
        \cup {File("ok", v, data) : v \in Versions}

InitStorage ==
    /\ holdings = EmptyHoldings
    /\ transactions = <<>>
    /\ realizedGains = <<>>
    /\ storage \in {st \in InitialStorages :
                      /\ ~st.idbAvailable => st.idb = NoValue
                      /\ ~st.isAvailable => st.local = NoValue}
    /\ app = InitialApp
    /\ lastCall = Call("new", NoArgs, "returned", NoResult)
    /\ callLog = <<>>
    /\ ncalls = 0

\* a starting application that buys, saves, loads and reads files
NextStorage ==
    \/ \E symbol \in OneSymbol, quantity \in OneQuantity, price \in Prices :
          AddTransaction("BUY", symbol, quantity, price, FirstDate, JsUndefined)
    \/ SaveData
    \/ LoadData
    \/ \E file \in Files(exportData(holdings, transactions, realizedGains)) :
          ImportFromFile(file)

SpecStorage == InitStorage /\ [][NextStorage]_vars

ImportFees == {JsUndefined, JsNum(Zero)}

\* orders of one share with the default fee or none, and imports of snapshots
NextImport ==
    \/ \E type \in Types, symbol \in OneSymbol, quantity \in OneQuantity,
          price \in Prices, feePercent \in ImportFees :
          AddTransaction(type, symbol, quantity, price, FirstDate, feePercent)
    \/ \E k \in Tamperings, sections \in SectionChoices : ImportSnapshot(k, sections)

SpecImport == Init /\ [][NextImport]_vars

\* Lots dated the day before the cutoff and on it, seen on both sides of
\* every bracket boundary
LotDates == {CutoffDate - 1, CutoffDate}

HeldDays == {0, 364, 365, 729, 730, 1094, 1095, 1459, 1460, 1461}

NextMilestone ==
    \/ \E purchaseDate \in LotDates, held \in HeldDays :
          CalculateTaxMilestone(purchaseDate, purchaseDate + held)
    \/ \E isFiler \in BOOLEAN : HandleFilerStatusChange(isFiler)

SpecMilestone == Init /\ [][NextMilestone]_vars

\* orders and sales on either trade date: nothing in addTransaction or
\* calculateSale relates the date of a SELL to the dates of the lots
NextBackdated ==
    \/ \E quantity \in Quantities, date \in TradeDates :
          AddTransaction("BUY", "OGDC", quantity, QuoteOn(date), date, JsUndefined)
    \/ \E quantity \in Quantities, price \in SellPrices, date \in TradeDates :
          AddTransaction("SELL", "OGDC", quantity, price, date, JsUndefined)
    \/ \E quantity \in Quantities, price \in SellPrices, date \in TradeDates :
          CalculateSale("OGDC", quantity, price, date, JsUndefined)

SpecBackdated == Init /\ [][NextBackdated]_vars

\* storage as the constructor of StorageManager finds it: empty, or holding
\* the snapshot an earlier session saved
SavedStorages ==
    {EmptyStorage(idbAvailable, TRUE) : idbAvailable \in BOOLEAN}
    \cup {saveData(EmptyStorage(idbAvailable, TRUE), SampleData).storage :
            idbAvailable \in BOOLEAN}

\* the React application before its first effect
InitEngine ==
    /\ holdings = EmptyHoldings
    /\ transactions = <<>>
    /\ realizedGains = <<>>
    /\ storage \in SavedStorages
    /\ app = [InitialApp EXCEPT !.effect = TRUE]
    /\ lastCall = Call("new", NoArgs, "returned", NoResult)
    /\ callLog = <<>>
    /\ ncalls = 0

NextEngine ==
    \/ UseAppEngine
    \/ \E type \in Types, quantity \in Quantities :
          OnSubmit(type, "OGDC", quantity, R(100), FirstDate)
    \/ CompleteRequest

SpecEngine == InitEngine /\ [][NextEngine]_vars

\* the page before new PakistanStockTaxApp()
InitApp ==
    /\ holdings = EmptyHoldings
    /\ transactions = <<>>
    /\ realizedGains = <<>>
    /\ storage \in SavedStorages
    /\ app = InitialApp
    /\ lastCall = Call("new", NoArgs, "returned", NoResult)
    /\ callLog = <<>>
    /\ ncalls = 0

\* a session of the page: orders of one symbol, their delayed commits, the
\* debounced save, and 'delete everything' confirmed by typing DELETE
NextApp ==
    \/ Constructor
    \/ \E type \in Types, quantity \in Quantities :
          HandleAddTransaction(type, "OGDC", quantity, R(100), FirstDate)
    \/ CommitTransaction
    \/ Tick
    \/ AutoSaveFires
    \/ CompleteRequest
    \/ ClearAllData
    \/ TypeConfirmInput("DELETE")
    \/ ExecuteConfirmAction

SpecApp == InitApp /\ [][NextApp]_vars

\* submissions of the transaction form and their delayed commits, in every
\* order the timers allow; the saves that follow are left waiting
NextCommits ==
    \/ Constructor
    \/ \E type \in Types, quantity \in Quantities :
          HandleAddTransaction(type, "OGDC", quantity, R(100), FirstDate)
    \/ CommitTransaction

SpecCommits == InitApp /\ [][NextCommits]_vars

\* orders and their commits, and the 'Delete All Data?' modal with every
\* text typed, confirmed or dismissed at any moment
NextModal ==
    \/ Constructor
    \/ \E quantity \in OneQuantity :
          HandleAddTransaction("BUY", "OGDC", quantity, R(100), FirstDate)
    \/ CommitTransaction
    \/ ClearAllData
    \/ \E text \in Texts : TypeConfirmInput(text)
    \/ ExecuteConfirmAction
    \/ HideConfirmModal

SpecModal == InitApp /\ [][NextModal]_vars

\* two exports to tell the calls of a burst apart
ExportsToSave == {SampleData, exportData(EmptyHoldings, <<>>, <<>>)}

\* calls of autoSave at any distance from each other, the timer and the
\* request it issues; callLog keeps the data of the calls made while enabled
NextAutoSave ==
    \/ \E data \in ExportsToSave : AutoSave(data)
    \/ \E enabled \in BOOLEAN : SetAutoSave(enabled)
    \/ Tick
    \/ AutoSaveFires
    \/ CompleteRequest

SpecAutoSave == Init /\ [][NextAutoSave]_vars

\* data lines: a BUY and a SELL of one share, a BUY of no share, a line of
\* another type and a line whose quantity is not a number
CsvLines ==
    {CsvLine("BUY", 1, TRUE), CsvLine("SELL", 1, TRUE), CsvLine("BUY", 0, TRUE),
     CsvLine("HOLD", 1, TRUE), CsvLine("BUY", 0, FALSE)}

\* files of one to MaxLines data lines
CsvFiles == UNION {[1 .. n -> CsvLines] : n \in 1 .. MaxLines}

NextCsv == \E lines \in CsvFiles : ImportFromCSV(lines)

SpecCsv == Init /\ [][NextCsv]_vars

(***************************************************************************)
(* Properties                                                              *)
(***************************************************************************)
SoldBy(call) ==
    /\ call.op = "addTransaction"
    /\ call.args.type = "SELL"
    /\ call.status = "returned"

BoughtBy(call) ==
    /\ call.op = "addTransaction"
    /\ call.args.type = "BUY"
    /\ call.status = "returned"

QuantitiesOf(lotsUsed) == [i \in 1 .. Len(lotsUsed) |-> lotsUsed[i].quantity]

\* C1: a SELL consumes the oldest-settled lots first: its lotsUsed are in
\* ascending settlement-date order, no lot it leaves behind settled before a
\* lot it consumed, every lot before the last consumed one is taken in full,
\* and the consumed quantities sum to the quantity sold.
C1_FifoOldestSettledFirst ==
    [][SoldBy(lastCall') =>
         LET used == lastCall'.result.lotsUsed
             before == holdings[lastCall'.args.symbol]
             left == holdings'[lastCall'.args.symbol]
         IN  /\ \A i, j \in 1 .. Len(used) :
                   i < j => used[i].purchaseDate <= used[j].purchaseDate
             /\ \A i \in 1 .. Len(used), k \in 1 .. Len(left) :
                   used[i].purchaseDate <= left[k].purchaseDate
             /\ \A i \in 1 .. Len(used) - 1 :
                   used[i].quantity = before[i].remainingQuantity
             /\ ISum(QuantitiesOf(used)) = lastCall'.args.quantity]_vars

\* C2: a SELL that throws (no lots for the symbol, or fewer shares than
\* requested) leaves holdings, transactions and realized gains as they were,
\* and a SELL throws exactly in those two cases.
C2_FailedSellChangesNothing ==
    [][(lastCall'.op = "addTransaction" /\ lastCall'.args.type = "SELL") =>
         LET a == lastCall'.args
             lots == holdings[a.symbol]
             short == Len(lots) = 0 \/ ISum(RemainingOf(lots)) < a.quantity
         IN  /\ short <=> lastCall'.status = "threw"
             /\ short => /\ holdings' = holdings
                         /\ transactions' = transactions
                         /\ realizedGains' = realizedGains]_vars

\* a SELL has just failed on a symbol that holds lots, next to recorded history
C2_Witness ==
    /\ lastCall.op = "addTransaction"
    /\ lastCall.args.type = "SELL"
    /\ lastCall.status = "threw"
    /\ Len(holdings[lastCall.args.symbol]) > 0
    /\ Len(transactions) > 0

QuantityIn(log, type, symbol) ==
    ISum([i \in 1 .. Len(log) |->
            IF log[i].type = type /\ log[i].symbol = symbol THEN log[i].quantity ELSE 0])

ReportedQuantity(h, symbol) ==
    IF symbol \in DOMAIN getHoldings(h) THEN getHoldings(h)[symbol].totalQuantity ELSE 0

\* C3: for every symbol, the quantity bought minus the quantity sold by the
\* calls that returned equals the sum of remainingQuantity over its lots,
\* which equals the totalQuantity getHoldings() reports (0 when absent).
C3_Conservation ==
    \A s \in Symbols :
        /\ QuantityIn(callLog, "BUY", s) - QuantityIn(callLog, "SELL", s)
              = TotalAvailable(holdings[s])
        /\ TotalAvailable(holdings[s]) = ReportedQuantity(holdings, s)

\* C4: every realized sale has capitalGain = saleProceeds - totalCostBasis,
\* totalCostBasis = the sum of its lotsUsed costBasis, and lotsUsed
\* quantities that sum to quantitySold.
C4_GainIdentity ==
    \A k \in 1 .. Len(getRealizedGains(realizedGains)) :
        LET g == realizedGains[k]
        IN  /\ g.capitalGain = RSub(g.saleProceeds, g.totalCostBasis)
            /\ g.totalCostBasis
                  = RSum([i \in 1 .. Len(g.lotsUsed) |-> g.lotsUsed[i].costBasis])
            /\ ISum(QuantitiesOf(g.lotsUsed)) = g.quantitySold

\* C5: importData(exportData()) leaves getHoldings(), getRealizedGains() and
\* getTransactions() unchanged.
C5_RoundTrip ==
    [][lastCall'.op = "importData" =>
         /\ getHoldings(holdings') = getHoldings(holdings)
         /\ getRealizedGains(realizedGains') = getRealizedGains(realizedGains)
         /\ getTransactions(transactions') = getTransactions(transactions)]_vars

\* C6: calculateSale and runWhatIfAnalysis never change the lots, the
\* transactions or the realized gains, whether they return or fail, and a
\* returned result is marked isSimulation.
C6_SimulationIsReadOnly ==
    [][lastCall'.op \in {"calculateSale", "runWhatIfAnalysis"} =>
         /\ holdings' = holdings
         /\ transactions' = transactions
         /\ realizedGains' = realizedGains
         /\ lastCall'.status = "returned" => lastCall'.result.isSimulation]_vars

\* the what-if flow has just simulated a sale that spans two lots
C6_Witness ==
    /\ lastCall.op = "runWhatIfAnalysis"
    /\ lastCall.status = "returned"
    /\ Len(lastCall.result.lotsUsed) = 2
    /\ Len(holdings[lastCall.args.symbol]) = 2

\* what the claim compares of a sale, or "threw"
Outcome(r) ==
    IF r.threw THEN <<"threw">>
    ELSE <<"returned", r.sale.lotsUsed, r.sale.totalCostBasis, r.sale.sellPrice,
           r.sale.saleProceeds, r.sale.capitalGain>>

\* C7: calculateSale throws exactly when addTransaction('SELL', ...) with the
\* same arguments would throw from the same ledger, and otherwise returns the
\* lotsUsed, totalCostBasis, sellPrice, saleProceeds and capitalGain that the
\* SELL returns.
C7_SimulationMatchesSell ==
    [][lastCall'.op = "calculateSale" =>
         LET a == lastCall'.args
             transaction == NewTransaction(transactions, "SELL", a.symbol, a.quantity,
                                           a.price, a.date, a.feePercent)
         IN  Outcome([threw |-> lastCall'.status = "threw", sale |-> lastCall'.result])
               = Outcome(_processSell(holdings, transaction))]_vars

\* a simulated sale has just taken the whole first lot and ended inside the
\* second one, the two lots having settled on different days
C7_Witness ==
    /\ lastCall.op = "calculateSale"
    /\ lastCall.status = "returned"
    /\ Len(lastCall.result.lotsUsed) = 2
    /\ LET lots == holdings[lastCall.args.symbol]
       IN  /\ Len(lots) = 2
           /\ lastCall.result.lotsUsed[2].quantity < lots[2].remainingQuantity
           /\ lots[1].purchaseDate # lots[2].purchaseDate

\* C8: getTransactions() holds one record for every addTransaction call that
\* returned, BUY and SELL alike, in call order.
C8_OneRecordPerCall ==
    /\ Len(getTransactions(transactions)) = Len(callLog)
    /\ \A i \in 1 .. Min(Len(transactions), Len(callLog)) :
          /\ transactions[i].type = callLog[i].type
          /\ transactions[i].symbol = callLog[i].symbol
          /\ transactions[i].quantity = callLog[i].quantity
          /\ transactions[i].price = callLog[i].price

\* C9: addTransaction with a non-positive quantity or price fails and leaves
\* lots, transactions and realized gains unchanged.
C9_InvalidInputRejected ==
    [][(/\ lastCall'.op = "addTransaction"
        /\ \/ lastCall'.args.quantity <= 0
           \/ RLe(lastCall'.args.price, Zero)) =>
         /\ lastCall'.status = "threw"
         /\ holdings' = holdings
         /\ transactions' = transactions
         /\ realizedGains' = realizedGains]_vars

\* the fee percent the specification assigns to an argument
DocumentedFee(feePercent) ==
    IF feePercent.t = "num" /\ feePercent.v[1] >= 0 THEN feePercent.v ELSE <<1, 2>>

Last(s) == s[Len(s)]

\* C10: the fee percent applied by addTransaction and calculateSale is 0.5 for
\* an omitted, null, empty, negative, NaN or infinite argument and the given
\* number otherwise; it is the value stored on the transaction, the lot and
\* the realized sale and the one the price is adjusted by; and the argument
\* never decides whether the call fails.
C10_FeePercentApplied ==
    [][lastCall'.op \in {"addTransaction", "calculateSale"} =>
         LET a == lastCall'.args
             fee == DocumentedFee(a.feePercent)
             pct == RDiv(fee, Hundred)
         IN  /\ lastCall'.status = "threw"
                   <=> (a.type = "SELL" /\ SellThrows(holdings, a.symbol, a.quantity))
             /\ BoughtBy(lastCall') =>
                   /\ Last(transactions').feePercent = fee
                   /\ Last(holdings'[a.symbol]).feePercent = fee
                   /\ Last(holdings'[a.symbol]).price = RMul(a.price, RAdd(One, pct))
             /\ SoldBy(lastCall') =>
                   /\ Last(realizedGains').feePercent = fee
                   /\ Last(realizedGains').sellPrice = RMul(a.price, RSub(One, pct))
             /\ (lastCall'.op = "calculateSale" /\ lastCall'.status = "returned") =>
                   /\ lastCall'.result.feePercent = fee
                   /\ lastCall'.result.sellPrice = RMul(a.price, RSub(One, pct))]_vars

\* a BUY with fee 0 has stored 0 on its lot, after a BUY that took the default
C10_Witness ==
    /\ BoughtBy(lastCall)
    /\ lastCall.args.feePercent = JsNum(Zero)
    /\ Len(holdings[lastCall.args.symbol]) = 2
    /\ holdings[lastCall.args.symbol][1].feePercent = DefaultFeePercent
    /\ holdings[lastCall.args.symbol][2].feePercent = Zero

\* C11: with the non-negative fee f applied to the call, a BUY at gross price
\* g creates a lot whose cost per share is g*(1+f/100) >= g >= 0; a SELL at
\* gross price s has net sell price s*(1-f/100) <= s and saleProceeds =
\* quantity * s*(1-f/100), and each of its consumption records carries the
\* cost per share of the lot it was taken from, which is that lot's gross
\* price inflated by that lot's fee.
C11_FeeAdjustedPrices ==
    [][lastCall'.op = "addTransaction" /\ lastCall'.status = "returned" =>
         LET a == lastCall'.args
             f == DocumentedFee(a.feePercent)
             pct == RDiv(f, Hundred)
         IN  /\ RLe(Zero, f)
             /\ BoughtBy(lastCall') =>
                   LET lot == Last(holdings'[a.symbol])
                   IN  /\ Len(holdings'[a.symbol]) = Len(holdings[a.symbol]) + 1
                       /\ lot.price = RMul(a.price, RAdd(One, pct))
                       /\ RLe(a.price, lot.price)
                       /\ RLe(Zero, a.price)
             /\ SoldBy(lastCall') =>
                   LET sale == lastCall'.result
                       before == holdings[a.symbol]
                   IN  /\ sale.sellPrice = RMul(a.price, RSub(One, pct))
                       /\ RLe(sale.sellPrice, a.price)
                       /\ sale.saleProceeds = RMul(R(a.quantity), sale.sellPrice)
                       /\ \A i \in 1 .. Len(sale.lotsUsed) :
                             /\ sale.lotsUsed[i].costPerShare = before[i].price
                             /\ before[i].price
                                   = RMul(before[i].grossPrice,
                                          RAdd(One, RDiv(before[i].feePercent, Hundred)))]_vars

\* a SELL with fee 1 has consumed a lot that was bought with fee 1
C11_Witness ==
    /\ SoldBy(lastCall)
    /\ lastCall.args.feePercent = JsNum(One)
    /\ lastCall.result.sellPrice = R(99)
    /\ Len(lastCall.result.lotsUsed) = 1
    /\ lastCall.result.lotsUsed[1].costPerShare = R(101)

\* C12: no stored lot has remainingQuantity <= 0 and a symbol with no shares
\* left is absent from getHoldings(); once every share bought of a symbol has
\* been sold, a SELL or a calculateSale on that symbol fails with 'No holdings
\* found'.
C12_NoExhaustedLot ==
    /\ [](\A s \in Symbols :
            /\ \A i \in 1 .. Len(holdings[s]) : holdings[s][i].remainingQuantity > 0
            /\ TotalAvailable(holdings[s]) = 0 => s \notin DOMAIN getHoldings(holdings))
    /\ [][(/\ lastCall'.op \in {"addTransaction", "calculateSale"}
           /\ lastCall'.args.type = "SELL"
           /\ QuantityIn(callLog, "BUY", lastCall'.args.symbol) > 0
           /\ QuantityIn(callLog, "BUY", lastCall'.args.symbol)
                 = QuantityIn(callLog, "SELL", lastCall'.args.symbol)) =>
            /\ lastCall'.status = "threw"
            /\ lastCall'.result = "No holdings found"]_vars

\* a SELL has just failed for lack of holdings on a symbol that was bought
\* and sold out before
C12_Witness ==
    /\ lastCall.op = "addTransaction"
    /\ lastCall.args.type = "SELL"
    /\ lastCall.status = "threw"
    /\ lastCall.result = "No holdings found"
    /\ QuantityIn(callLog, "BUY", lastCall.args.symbol) > 0
    /\ lastCall.args.symbol \notin DOMAIN getHoldings(holdings)

IsWeekday(date) == date % 7 \notin {0, 6}

WeekdaysWithin(from, to) == {x \in from .. to : IsWeekday(x)}

\* the settlement date that addTransaction or calculateSale has just derived
DerivedSettlement(call, h) ==
    IF call.op = "addTransaction" /\ call.args.type = "BUY"
    THEN Last(h[call.args.symbol]).purchaseDate
    ELSE call.result.saleDate

\* C13: the settlement date derived from a trade date is the second weekday
\* strictly after it: never a Saturday or Sunday, 2 to 4 calendar days later
\* (4 after a Thursday or Friday trade), and the same for every record with
\* the same trade date.
C13_SettlementIsSecondWeekday ==
    [][(lastCall'.op \in {"addTransaction", "calculateSale"}
        /\ lastCall'.status = "returned") =>
         LET d == lastCall'.args.date
             s == DerivedSettlement(lastCall', holdings')
         IN  /\ IsWeekday(s)
             /\ Cardinality(WeekdaysWithin(d + 1, s)) = 2
             /\ s - d \in 2 .. 4
             /\ d % 7 \in {4, 5} => s - d = 4
             /\ \A i \in 1 .. Len(transactions') :
                   transactions'[i].tradeDate = d => transactions'[i].settlementDate = s]_vars

\* a second BUY dated on the same Friday has settled on the Tuesday after
C13_Witness ==
    /\ BoughtBy(lastCall)
    /\ lastCall.args.date % 7 = 5
    /\ Len(transactions) = 2
    /\ transactions[1].tradeDate = transactions[2].tradeDate
    /\ Last(holdings[lastCall.args.symbol]).purchaseDate = lastCall.args.date + 4
    /\ Last(holdings[lastCall.args.symbol]).purchaseDate % 7 = 2

\* the second weekday strictly after a date
SecondWeekdayAfter(date) ==
    CHOOSE s \in date + 1 .. date + 7 :
        IsWeekday(s) /\ Cardinality(WeekdaysWithin(date + 1, s)) = 2

\* C14: each lotsUsed entry of a sale, recorded or simulated, has
\* holdingPeriod.days = the whole days from the settlement date of the lot to
\* the settlement date of the sale, both derived from the trade dates of the
\* BUY and of the sale, and isLongTerm exactly when days >= 365.
C14_HoldingPeriodFromSettlement ==
    [][((SoldBy(lastCall') \/ lastCall'.op = "calculateSale")
        /\ lastCall'.status = "returned") =>
         LET a == lastCall'.args
             used == lastCall'.result.lotsUsed
             before == holdings[a.symbol]
         IN  \A i \in 1 .. Len(used) :
                LET bought == transactions[before[i].originalTransaction].tradeDate
                    days == SecondWeekdayAfter(a.date) - SecondWeekdayAfter(bought)
                IN  /\ used[i].purchaseDate = SecondWeekdayAfter(bought)
                    /\ used[i].holdingPeriod.days = days
                    /\ used[i].holdingPeriod.isLongTerm <=> days >= LongTermDays]_vars

\* a share bought on a Friday has been sold on the Saturday 365 days later:
\* 364 days between the two Tuesday settlements, not long-term, next to a
\* share held 365 days that is
C14_Witness ==
    /\ SoldBy(lastCall)
    /\ Len(lastCall.result.lotsUsed) = 2
    /\ \E i, j \in 1 .. 2 :
          /\ transactions[i].tradeDate = lastCall.args.date - 365
          /\ lastCall.result.lotsUsed[i].holdingPeriod.days = 364
          /\ ~lastCall.result.lotsUsed[i].holdingPeriod.isLongTerm
          /\ lastCall.result.lotsUsed[j].holdingPeriod.days = 365
          /\ lastCall.result.lotsUsed[j].holdingPeriod.isLongTerm

\* C15: after importData of a snapshot, whatever derived values it carried,
\* every realized sale has saleProceeds = quantitySold * sellPrice,
\* totalCostBasis = the sum of its lotsUsed costBasis, each lotsUsed costBasis
\* = quantity * costPerShare, and capitalGain = saleProceeds - totalCostBasis.
C15_ImportRecomputesDerived ==
    [][lastCall'.op = "importData" =>
         \A k \in 1 .. Len(realizedGains') :
            LET g == realizedGains'[k]
            IN  /\ g.saleProceeds = RMul(R(g.quantitySold), g.sellPrice)
                /\ g.totalCostBasis
                      = RSum([i \in 1 .. Len(g.lotsUsed) |-> g.lotsUsed[i].costBasis])
                /\ \A i \in 1 .. Len(g.lotsUsed) :
                      g.lotsUsed[i].costBasis
                         = RMul(R(g.lotsUsed[i].quantity), g.lotsUsed[i].costPerShare)
                /\ g.capitalGain = RSub(g.saleProceeds, g.totalCostBasis)]_vars

\* a snapshot whose realized sale carried wrong derived values has just been
\* imported
C15_Witness ==
    /\ lastCall.op = "importData"
    /\ lastCall.args.type = "derived"
    /\ "realizedGains" \in lastCall.result.sections
    /\ Len(realizedGains) > 0
    /\ lastCall.result.realizedGains[1].saleProceeds = WrongValue
    /\ realizedGains[1].saleProceeds # WrongValue
    /\ lastCall.result.realizedGains[1].lotsUsed[1].costBasis = WrongValue

\* what importData must make of a lot of the snapshot; anyFee tells whether
\* a negative fee percent is recomputed with like the others
LotMigrated(old, new, anyFee) ==
    LET gross == IF old.grossPrice = AbsentNum THEN old.price ELSE old.grossPrice
    IN  /\ new.grossPrice = gross
        /\ (old.price = gross /\ old.feePercent # AbsentNum
              /\ (anyFee \/ RLe(Zero, old.feePercent))) =>
              new.price = RMul(gross, RAdd(One, RDiv(old.feePercent, Hundred)))
        /\ old.price # gross => new.price = old.price

LotsMigrated(data, h, anyFee) ==
    \A s \in Symbols :
        /\ Len(h[s]) = Len(data.holdings[s])
        /\ \A i \in 1 .. Len(h[s]) : LotMigrated(data.holdings[s][i], h[s][i], anyFee)

C17_ResetEmptiesLedger ==
    [][/\ lastCall'.op = "reset" =>
            /\ \A s \in Symbols : Len(holdings'[s]) = 0
            /\ transactions' = <<>>
            /\ realizedGains' = <<>>
            /\ DOMAIN getHoldings(holdings') = {}
       /\ (lastCall.op = "reset" /\ lastCall'.args.type = "SELL") =>
            lastCall'.status \in {"threw", "rejected"}
       /\ (lastCall.op = "reset" /\ BoughtBy(lastCall')) =>
            LET a == lastCall'.args
            IN  /\ Len(transactions') = 1
                /\ transactions'[1].id = 1
                /\ realizedGains' = <<>>
                /\ \A s \in Symbols \ {a.symbol} : Len(holdings'[s]) = 0
                /\ Len(holdings'[a.symbol]) = 1
                /\ holdings'[a.symbol][1].remainingQuantity = a.quantity
                /\ holdings'[a.symbol][1].grossPrice = a.price
                /\ holdings'[a.symbol][1].originalTransaction = 1
                /\ getHoldings(holdings')[a.symbol].totalQuantity = a.quantity]_vars

\* reset() has just run as the third call
C17_Witness ==
    /\ lastCall.op = "reset"
    /\ ncalls = 3
    /\ \A s \in Symbols : Len(holdings[s]) = 0
    /\ Len(transactions) = 0
    /\ Len(callLog) = 0

\* the value under storageKey that loadData reads
Persisted(st) ==
    IF st.idbAvailable
    THEN IF st.idb.kind = "none" /\ st.isAvailable THEN st.local ELSE st.idb
    ELSE IF st.isAvailable THEN st.local ELSE NoValue

\* C18: loadData resolves to null when nothing is stored, and a stored
\* snapshot that is corrupt or does not parse never gives that same outcome:
\* its caller can tell the decode failure from 'no saved data'.
C18_DecodeFailureDistinct ==
    [][lastCall'.op = "loadData" =>
         LET value == Persisted(storage)
             asNoData == lastCall'.status = "resolved" /\ lastCall'.result.kind = "null"
         IN  /\ value.kind = "none" => asNoData
             /\ (value.kind # "none" /\ value.content # "ok") => ~asNoData]_vars

\* C19: a stored snapshot that is well formed is returned by loadData
\* whatever its version, from IndexedDB (object or text) and from
\* localStorage, and importFromFile resolves to the data of a well-formed
\* file whatever its version.
C19_VersionMismatchAccepted ==
    [][/\ lastCall'.op = "loadData" =>
            LET value == Persisted(storage)
            IN  (value.kind # "none" /\ value.content = "ok") =>
                   /\ lastCall'.status = "resolved"
                   /\ lastCall'.result.kind = "data"
                   /\ lastCall'.result.data = value.data
       /\ lastCall'.op = "importFromFile" =>
            LET file == lastCall'.result.file
            IN  file.content = "ok" =>
                   /\ lastCall'.status = "resolved"
                   /\ lastCall'.result.settled.kind = "data"
                   /\ lastCall'.result.settled.data = file.data]_vars

\* loadData has just returned, on the localStorage path, the data of a
\* snapshot saved under another version
C19_Witness ==
    /\ lastCall.op = "loadData"
    /\ ~storage.idbAvailable
    /\ storage.local.kind = "string"
    /\ storage.local.content = "ok"
    /\ storage.local.version = OtherVersion
    /\ lastCall.result.kind = "data"
    /\ lastCall.result.data = SampleData

\* C20: the ids of the records of getTransactions() are pairwise distinct and
\* strictly increasing in insertion order.
C20_TransactionIdsIncrease ==
    \A i, j \in 1 .. Len(getTransactions(transactions)) :
        i < j => getTransactions(transactions)[i].id < getTransactions(transactions)[j].id

\* two recorded transactions with a successful SELL between them
C20_Witness ==
    /\ BoughtBy(lastCall)
    /\ Len(transactions) = 2
    /\ Len(realizedGains) = 1
    /\ transactions[1].id = 1
    /\ transactions[2].id = 2

\* The rate of the legacy regime for a filer's lot held for the given days
PolicyRate(days) ==
    IF days < 365 THEN R(15)
    ELSE IF days < 730 THEN RDiv(R(25), R(2))
    ELSE IF days < 1095 THEN R(10)
    ELSE IF days < 1460 THEN RDiv(R(15), R(2))
    ELSE Zero

\* The next boundary above the given days (days < 1460)
NextBoundary(days) ==
    IF days < 365 THEN 365
    ELSE IF days < 730 THEN 730
    ELSE IF days < 1095 THEN 1095
    ELSE 1460

\* C21: calculateTaxMilestone reports 'not applicable' for a lot dated on or
\* after the cutoff or for a non-filer; for a filer's earlier lot currentRate
\* is the rate of the bracket the holding days fall in (15, 12.5, 10, 7.5,
\* 0), nextRate is the rate of the next lower bracket and daysToNext is the
\* positive number of days left to that boundary.
C21_MilestoneRates ==
    lastCall.op = "calculateTaxMilestone" =>
        LET r == lastCall.result
            m == r.milestone
            days == r.today - r.purchaseDate
        IN  IF r.purchaseDate >= CutoffDate \/ ~r.isFiler
            THEN ~m.applicable
            ELSE /\ m.applicable
                 /\ m.currentRate = PolicyRate(days)
                 /\ days < 1460 =>
                       /\ m.nextRate = PolicyRate(NextBoundary(days))
                       /\ m.daysToNext = R(NextBoundary(days) - days)
                       /\ RLt(Zero, m.daysToNext)

\* C22: in every realized sale and every simulated sale each lotsUsed record
\* has holdingPeriod.days >= 0: no SELL consumes a lot that settles after
\* the sale itself.
C22_HoldingDaysNonNegative ==
    /\ \A i \in 1..Len(realizedGains) :
          \A j \in 1..Len(realizedGains[i].lotsUsed) :
             realizedGains[i].lotsUsed[j].holdingPeriod.days >= 0
    /\ (lastCall.op \in {"calculateSale", "addTransaction"}
        /\ lastCall.args.type = "SELL" /\ lastCall.status = "returned") =>
          \A j \in 1..Len(lastCall.result.lotsUsed) :
             lastCall.result.lotsUsed[j].holdingPeriod.days >= 0

\* the calls of the given type that returned
Returned(type) == {i \in 1 .. Len(callLog) : callLog[i].type = type}

\* C23: after a transaction is saved through AddTransactionScreen
\* (addTransaction, persist(), refresh()), the engine the UI uses from then
\* on holds the effect of that transaction and of every one before it,
\* however the saveData write and the loadData read of the refresh
\* interleave: a record for every BUY and a realized sale for every SELL.
C23_EngineKeepsSaved ==
    (app.ready /\ ~app.effect) =>
        /\ Len(transactions) = Cardinality(Returned("BUY"))
        /\ Len(realizedGains) = Cardinality(Returned("SELL"))

\* C24: when the application starts while storage holds a snapshot written
\* by saveData, the ledger after initialisation is the one the snapshot
\* describes: it has the snapshot's records, lots and realized sales.
C24_StartupRestoresSnapshot ==
    (/\ lastCall.op \in {"constructor", "useAppEngine"}
     /\ ncalls = 0
     /\ Persisted(storage).kind # "none") =>
        LET data == Persisted(storage).data
        IN  /\ Len(transactions) = Len(data.transactions)
            /\ Len(realizedGains) = Len(data.realizedGains)
            /\ \A s \in Symbols : Len(holdings[s]) = Len(data.holdings[s])

\* C25: after a confirmed 'delete everything' (reset and clearAllData) the
\* store does not hold the deleted ledger again: once the requests in flight
\* have completed and no timer is waiting, with no order recorded since,
\* nothing is stored; an autoSave scheduled before the delete does not
\* write the deleted transactions back when it fires after it.
C25_DeleteIsFinal ==
    (/\ lastCall.op = "executeConfirmAction"
     /\ lastCall.status = "returned"
     /\ lastCall.result = "deleteAll"
     /\ app.io = <<>>
     /\ ~app.timer.armed) =>
        Persisted(storage).kind = "none"

\* C26: however the submissions of handleAddTransaction and their delayed
\* commits interleave, the ledger never sells more than it holds: no lot has
\* a negative remaining quantity, the quantity sold never exceeds the
\* quantity bought and the lots hold the difference; the commit of a SELL
\* that passed the pre-check but finds too few shares fails and leaves the
\* ledger unchanged.
C26_CommitsNeverOversell ==
    /\ [](\A s \in Symbols :
            /\ \A i \in 1 .. Len(holdings[s]) : holdings[s][i].remainingQuantity >= 0
            /\ QuantityIn(callLog, "SELL", s) <= QuantityIn(callLog, "BUY", s)
            /\ TotalAvailable(holdings[s])
                  = QuantityIn(callLog, "BUY", s) - QuantityIn(callLog, "SELL", s))
    /\ [][(/\ lastCall'.op = "commit"
           /\ lastCall'.args.type = "SELL"
           /\ app.commits # app'.commits
           /\ TotalAvailable(holdings[lastCall'.args.symbol]) < lastCall'.args.quantity) =>
            /\ lastCall'.status = "threw"
            /\ UNCHANGED <<holdings, transactions, realizedGains>>]_vars

\* two SELLs passed the pre-check against the same lot; the first was
\* committed and the commit of the second has just failed
C26_Witness ==
    /\ lastCall.op = "commit"
    /\ lastCall.args.type = "SELL"
    /\ lastCall.status = "threw"
    /\ Len(realizedGains) = 1
    /\ Len(transactions) = 1

\* the ledger holds nothing
EmptyLedger ==
    /\ holdings = EmptyHoldings
    /\ transactions = <<>>
    /\ realizedGains = <<>>

\* C27: the onConfirm callback of the 'delete all data' modal runs at most
\* once per showConfirmModal call, only in executeConfirmAction and only
\* while the typed text is 'DELETE' in upper or lower case; the ledger is
\* emptied by nothing else; hideConfirmModal runs the cancel callback only;
\* after either path both callbacks are cleared and a later
\* executeConfirmAction or hideConfirmModal runs nothing.
C27_ConfirmRunsOnce ==
    /\ [](/\ app.modal.confirmRuns + app.modal.cancelRuns <= 1
          /\ (\/ lastCall.op = "hideConfirmModal"
              \/ lastCall.op = "executeConfirmAction" /\ lastCall.status = "returned") =>
                /\ app.modal.confirmCallback = "null"
                /\ app.modal.cancelCallback = "null")
    /\ [][/\ (\/ app'.modal.confirmRuns > app.modal.confirmRuns
              \/ ~EmptyLedger /\ EmptyLedger') =>
                /\ lastCall'.op = "executeConfirmAction"
                /\ app.modal.confirmCallback = "deleteAll"
                /\ app.modal.input \in {"DELETE", "delete"}
          /\ (lastCall'.op = "hideConfirmModal" /\ app'.modal # app.modal) =>
                /\ app'.modal.confirmRuns = app.modal.confirmRuns
                /\ UNCHANGED <<holdings, transactions, realizedGains, storage>>]_vars

\* an order was committed (its save is waiting) and the confirmed modal has
\* just deleted it
C27_Witness ==
    /\ lastCall.op = "executeConfirmAction"
    /\ lastCall.status = "returned"
    /\ lastCall.result = "deleteAll"
    /\ app.modal.confirmRuns = 1
    /\ EmptyLedger
    /\ app.timer.armed

\* C28: importData(snapshot) leaves a ledger that depends on the snapshot
\* alone: whatever the ledger held before, it is the ledger that importing
\* the snapshot into a new FIFOQueue gives, also when the snapshot lacks a
\* section, so nothing of the prior state survives.
C28_ImportDependsOnSnapshotOnly ==
    [][(lastCall'.op = "importData" /\ ncalls' # ncalls) =>
         LET fresh == importData(EmptyHoldings, <<>>, <<>>, lastCall'.result)
         IN  /\ holdings' = fresh.holdings
             /\ transactions' = fresh.transactions
             /\ realizedGains' = fresh.realizedGains]_vars

\* C29: autoSave debounces.  A saveData is issued only by the timer of the
\* last call, once per timer, not before the delay has passed since that
\* call, and with the data of that call; a call made while autoSave is
\* disabled schedules nothing.
C29_AutoSaveDebounces ==
    [][/\ Len(app'.io) > Len(app.io) =>
            /\ app.timer.armed
            /\ ~app'.timer.armed
            /\ app.sinceCall >= AutoSaveDelay
            /\ app'.io = Append(app.io, Request("set", Last(callLog)))
       /\ (app.timer.armed /\ ~app'.timer.armed) => Len(app'.io) = Len(app.io) + 1
       /\ (lastCall'.op = "autoSave" /\ ncalls' # ncalls) =>
            IF app.autoSaveEnabled
            THEN app'.timer = [armed |-> TRUE, data |-> lastCall'.result,
                               remaining |-> AutoSaveDelay]
            ELSE app'.timer = app.timer]_vars

\* a burst of two calls with different data was answered by one save, of
\* the data of the second call
C29_Witness ==
    /\ Len(callLog) = 2
    /\ callLog[1] # callLog[2]
    /\ ~app.timer.armed
    /\ app.io = <<Request("set", callLog[2])>>
    /\ storage.idb = NoValue

\* the lots of every symbol together
LotCount(h) == Cardinality(UNION {{<<s, i>> : i \in 1 .. Len(h[s])} : s \in Symbols})

\* C30: importFromCSV handles the data lines in file order and in
\* isolation: every line counted in successCount added exactly one BUY lot
\* or one realized sale, every line counted in errorCount left the ledger
\* unchanged and the lines after it were still handled, and successCount +
\* errorCount is the number of non-empty data lines.
C30_CsvLinesInIsolation ==
    lastCall.op = "importFromCSV" =>
        LET r == lastCall.result
        IN  /\ r.successCount + r.errorCount = Len(r.lines)
            /\ DOMAIN r.trace = 0 .. Len(r.lines)
            /\ \A i \in 1 .. Len(r.lines) :
                  LET before == r.trace[i - 1].ledger
                      after == r.trace[i].ledger
                      lots == LotCount(after.holdings) - LotCount(before.holdings)
                      sales == Len(after.realizedGains) - Len(before.realizedGains)
                  IN  /\ r.trace[i].counted \in {"success", "error"}
                      /\ r.trace[i].counted = "error" => after = before
                      /\ r.trace[i].counted = "success" =>
                            \/ r.lines[i].type = "BUY" /\ lots = 1 /\ sales = 0
                            \/ r.lines[i].type = "SELL" /\ sales = 1

=============================================================================
